---- MODULE Spec2Model ----
(***************************************************************************)
(* State-machine model of higgs_inference:                                 *)
(*   experiments.py                 the command-line dispatcher            *)
(*   strategies/histograms.py       histo_inference                        *)
(*   strategies/point_by_point.py   point_by_point_inference               *)
(*                                                                         *)
(* Numbers.  Log-ratios are small integers; a ratio r is carried by its    *)
(* logarithm; NaN is the not-a-number value (a reserved integer) and      *)
(* absorbs sums.  Lengths (pT) are integers, angles are in units of        *)
(* 1/10000 rad.  The quotient of expected LLR is kept exact as num/den.    *)
(***************************************************************************)
EXTENDS Integers, Sequences, FiniteSets, TLC

(***************************************************************************)
(* Bounds of the model (sizes the settings module fixes for a real run).   *)
(***************************************************************************)
\* settings.n_thetas: number of hypotheses on the grid
NThetas == 4
\* settings.n_neyman_distribution_experiments: toys per distribution sample
NToys == 2
\* settings.n_expected_events: events per toy experiment
NEvents == 2
\* rows of the shared test sample
NTest == 2

\* the not-a-number value, kept apart from every number the model computes
NaN == 0 - 999999

Thetas == 0 .. (NThetas - 1)

\* settings.pbp_training_thetas: the curated training subset, in the order
\* the loops iterate it (not the grid order, and not the whole grid)
pbp_training_thetas == <<NThetas - 1, 1>>

\* settings.theta_observed
theta_observed == 0

\* settings.theta1_default / settings.theta1_alternative
theta1_default == NThetas - 1

theta1_alternative == 1

(***************************************************************************)
(* Generic helpers                                                         *)
(***************************************************************************)
RECURSIVE SumSeq(_)
\* np.sum over a 1-d array: NaN absorbs
SumSeq(s) ==
  IF s = <<>> THEN 0
  ELSE LET rest == SumSeq(Tail(s))
       IN IF Head(s) = NaN \/ rest = NaN THEN NaN ELSE Head(s) + rest

\* a faulty variant: the newest entry is put in front of the series
PrependMetric(series, value) == <<value>> \o series

\* series.append(value)
AppendMetric(series, value) == Append(series, value)

Times(k, v) == IF v = NaN THEN NaN ELSE k * v

RECURSIVE Flatten(_)
\* X.reshape((-1, X.shape[2])): the toys' events, toy after toy
Flatten(batch) ==
  IF batch = <<>> THEN <<>> ELSE Head(batch) \o Flatten(Tail(batch))

\* a.reshape((-1, width)): consecutive chunks of `width` entries
Reshape(flat, width) ==
  [k \in 1 .. (Len(flat) \div width) |->
     SubSeq(flat, (k - 1) * width + 1, k * width)]

\* -2. * np.sum(log_r.reshape((-1, n_expected_events)), axis=1)
LLRSums(log_r) ==
  LET rows == Reshape(log_r, NEvents)
  IN [k \in 1 .. Len(rows) |-> Times(-2, SumSeq(rows[k]))]

\* placeholder = np.empty(n_neyman_distribution_experiments); placeholder[:] = np.nan
Placeholder == [k \in 1 .. NToys |-> NaN]

\* - 2. * settings.n_expected_events / n_events_test * np.sum(np.log(this_r))
\* (an exact quotient num/den; NaNQ when the sum is not a number)
NaNQ == [num |-> NaN, den |-> 1]

\* a faulty variant: the sum is not scaled to the number of test events
ExpectedLLRUnscaled(log_r, n_events_test) ==
  IF SumSeq(log_r) = NaN THEN NaNQ
  ELSE [num |-> -2 * NEvents * SumSeq(log_r), den |-> 1]

ExpectedLLR(log_r, n_events_test) ==
  IF SumSeq(log_r) = NaN THEN NaNQ
  ELSE [num |-> -2 * NEvents * SumSeq(log_r), den |-> n_events_test]

(***************************************************************************)
(* The sample store: the arrays the run reads.  A feature is one integer;  *)
(* a sample named in `bad` holds a non-finite entry in its first row.      *)
(***************************************************************************)
\* the events per toy of a stored toy batch, where the settings give n: the
\* batches of a `wide` store hold twice as many
StoredEvents(wide, n) == IF wide THEN 2 * n ELSE n

X_test_file == [k \in 1 .. NTest |-> k]

\* r_test: for each hypothesis the true ratio of every test event, carried
\* by its logarithm
r_test_file == [t \in Thetas |-> [k \in 1 .. NTest |-> ((k + t) % 3) - 1]]

X_train_file(t) == <<t, t + 2, t + 4>>

\* toy batch: toys x events-per-toy x features
X_neyman_distribution_file(wide, tt) ==
  [toy \in 1 .. NToys |->
     [ev \in 1 .. StoredEvents(wide, NEvents) |-> tt + toy + ev]]

X_neyman_observed_file(wide) ==
  [toy \in 1 .. 1 |->
     [ev \in 1 .. StoredEvents(wide, NEvents) |-> theta_observed + ev]]

Spoil(sample) == [k \in 1 .. Len(sample) |-> IF k = 1 THEN NaN ELSE sample[k]]

(***************************************************************************)
(* Collaborators: the scaler and the trainable scorer.  `id` is the        *)
(* hypothesis whose training sample the object was fit on.                 *)
(***************************************************************************)
None == [id |-> -1]

Finite(sample) == \A k \in 1 .. Len(sample) : sample[k] # NaN

RECURSIVE SumFinite(_)
SumFinite(s) ==
  IF s = <<>> THEN 0
  ELSE (IF Head(s) = NaN THEN 0 ELSE Head(s)) + SumFinite(Tail(s))

CountFinite(s) == Cardinality({k \in 1 .. Len(s) : s[k] # NaN})

ISqrt(v) == CHOOSE k \in 0 .. v : k * k <= v /\ (k + 1) * (k + 1) > v

\* StandardScaler().fit(X): mean and standard deviation of the finite entries
\* (a constant column scales by 1)
StandardScalerFit(t, X) ==
  LET n    == IF CountFinite(X) = 0 THEN 1 ELSE CountFinite(X)
      mean == SumFinite(X) \div n
      var  == SumFinite([k \in 1 .. Len(X) |->
                IF X[k] = NaN THEN 0 ELSE (X[k] - mean) * (X[k] - mean)]) \div n
  IN [id |-> t, mean |-> mean,
      scale |-> IF ISqrt(var) = 0 THEN 1 ELSE ISqrt(var)]

\* scaler.transform(X): non-finite entries stay non-finite
Transform(sc, X) ==
  [k \in 1 .. Len(X) |->
     IF X[k] = NaN THEN NaN ELSE (X[k] - sc.mean) \div sc.scale]

\* a faulty variant: the transform overwrites the test sample it is given
TransformInPlace(shared, X_test_transformed) ==
  [shared EXCEPT !.X_test = X_test_transformed]

\* the samples after scaler.transform(X): transform returns a new array, the
\* sample it is given is left as it was
AfterTransform(shared, X_test_transformed) == shared

\* the log-ratio a fitted scorer gives one transformed event
LogRHat(est, x) ==
  IF est.nonfinite \/ x = NaN THEN NaN
  ELSE ((est.id + est.shift + x) % 3) - 1

\* estimator.predict(X) for the scorers of point_by_point.py, as log r
PredictLogR(est, X) == [k \in 1 .. Len(X) |-> LogRHat(est, X[k])]

\* np.exp / np.log on a ratio carried by its logarithm
Exp(v) == [logr |-> v, guarded |-> FALSE]

Log(r) == r.logr

\* ClassifierScoreRatio.predict(X)[0]: the ratio for each row
RatioPredict(est, X) == [k \in 1 .. Len(X) |-> Exp(LogRHat(est, X[k]))]

LogAll(r) == [k \in 1 .. Len(r) |-> Log(r[k])]

\* whether every ratio of the array has passed the boundary guard r_from_s
Guarded(r) == \A k \in 1 .. Len(r) : r[k].guarded

X_calibration_file == <<1, 3>>

\* weights_calibration[t]: one weight per calibration row
weights_calibration_file(t) ==
  [k \in 1 .. Len(X_calibration_file) |-> 10 * (t + 1) + k]

\* r_train of hypothesis t, each ratio carried by its logarithm
r_train_file(t) == <<t - 1, 0, 1>>

y_train_file(t) == <<0, 1, 1>>

(***************************************************************************)
(* State                                                                   *)
(***************************************************************************)
VARIABLES
  prog,        \* the entry point that is running
  pc,          \* its position
  algorithm,   \* point_by_point_inference(algorithm=...)
  options,     \* options=... (a set of option strings)
  scenario,    \* which files hold non-finite values, which fits go astray
  benchmark,   \* settings.theta_benchmark_trained / _nottrained / _illustration
  filename_addition,
  theta1,
  i,           \* position of the per-hypothesis loop in its sequence (from 1)
  tt,          \* the Neyman loop's candidate hypothesis
  decide,      \* decide_toy_evaluation(., t) as answered in this iteration
  samples,     \* the arrays loaded from the sample store
  transformed, \* the arrays the scaler produced in this iteration
  scaler, est, cal,
  expected_llr, expected_llr_calibrated,
  llr_neyman_distributions, llr_neyman_distributions_calibrated,
  store,       \* the result store: key -> saved array
  calls        \* the calls made on the collaborators, in order

pbpvars == <<algorithm, options, scenario, benchmark, filename_addition, theta1, i, tt,
             decide, samples, transformed, scaler, est, cal, expected_llr,
             expected_llr_calibrated, llr_neyman_distributions,
             llr_neyman_distributions_calibrated, store, calls>>

VARIABLES
  indices_X, binning, use_smearing, denominator, do_neyman,
  bins,        \* the bin edges handed to the histogram estimator
  mse_log_r, trimmed_mse_log_r, mse_log_r_train, cross_entropies_train

histovars == <<indices_X, binning, use_smearing, denominator, do_neyman, bins,
               mse_log_r, trimmed_mse_log_r, mse_log_r_train,
               cross_entropies_train>>

VARIABLES
  args,                  \* the parsed command line
  loaded_ml_strategies,  \* whether the ML strategies could be imported
  call                   \* the strategy call made: callee and keyword names

clivars == <<args, loaded_ml_strategies, call>>

\* one call on a collaborator (sample store, scaler, scorer, numpy log, sink)
Ev(op, name, idx, it, sc, e, ok) ==
  [op |-> op, name |-> name, idx |-> idx, iter |-> it, scaler |-> sc,
   est |-> e, ok |-> ok]

Key(name, t) == [name |-> name, t |-> t]

\* np.save(key, value): a later save under the same key replaces the array
Save(st, name, t, value) == (Key(name, t) :> value) @@ st

EmptyStore == [k \in {} |-> 0]

\* np.load of a sample file: the file's rows, non-finite where the scenario says
Load(name, idx, rows) ==
  IF Key(name, idx) \in scenario.bad THEN Spoil(rows) ELSE rows

\* the hypothesis of iteration i of the point-by-point loops
T == pbp_training_thetas[i]

\* the call a loop position makes on a collaborator
StepOp(position) == IF position = "evaluate" THEN "predict" ELSE position

\* np.load, fit or predict raises in the iteration of hypothesis t
Raises(op, t) == [op |-> op, t |-> t] \in scenario.raises

\* regr.predict(X_test_transformed): what the trained scorer gives, or, when
\* the run replaces the estimator by an oracle, the true log ratios
PredictTest(e, X_test) ==
  IF scenario.oracle THEN r_test_file[e.id] ELSE PredictLogR(e, X_test)

\* ratio.predict(X_test_transformed)[0], likewise
RatioPredictTest(e, X_test) ==
  [k \in 1 .. Len(X_test) |-> Exp(PredictTest(e, X_test)[k])]

\* a handler that swallowed the exception would resume the step
ResumeStep(position) == position

\* where control goes when a step of the loop raises: no try statement
\* encloses the loops, the exception leaves the function
Propagate(position) == "failed"

OptionSets == {{}, {"denom1"}, {"learns", "deep"}, {"debug", "long", "shallow"}}

Clean ==
  [bad |-> {}, nonfinite |-> {}, family |-> 1, wide |-> FALSE, raises |-> {},
   oracle |-> FALSE]

Scenarios ==
  {Clean, [Clean EXCEPT !.bad = {Key("X_test", -1)}]}
  \cup {[Clean EXCEPT !.bad = {Key("X_train", pbp_training_thetas[k])}] :
          k \in 1 .. Len(pbp_training_thetas)}
  \cup {[Clean EXCEPT !.bad = {Key("r_train", pbp_training_thetas[k])}] :
          k \in 1 .. Len(pbp_training_thetas)}
  \cup {[Clean EXCEPT !.nonfinite = {pbp_training_thetas[k]}] :
          k \in 1 .. Len(pbp_training_thetas)}
  \cup {[Clean EXCEPT !.wide = TRUE], [Clean EXCEPT !.oracle = TRUE]}
  \cup {[Clean EXCEPT !.raises = {[op |-> o, t |-> pbp_training_thetas[k]]}] :
          o \in {"load", "fit", "predict"}, k \in 1 .. Len(pbp_training_thetas)}

\* the two benchmark indices of the settings module
BenchmarkChoices ==
  {[trained |-> NThetas - 1, nottrained |-> 1, illustration |-> 0],
   [trained |-> 1, nottrained |-> 1, illustration |-> 1],
   [trained |-> 0, nottrained |-> NThetas - 1, illustration |-> NThetas - 1]}

(***************************************************************************)
(* point_by_point_inference: settings and shared data                      *)
(***************************************************************************)
\* the suffix of every result key, built from the options
PbpFilenameAddition(opts) ==
     (IF "learns" \in opts THEN <<"_learns">> ELSE <<>>)
  \o (IF "shallow" \in opts THEN <<"_shallow">>
      ELSE IF "deep" \in opts THEN <<"_deep">> ELSE <<>>)
  \o (IF "debug" \in opts THEN <<"_debug">>
      ELSE IF "long" \in opts THEN <<"_long">>
      ELSE IF "short" \in opts THEN <<"_short">> ELSE <<>>)
  \o (IF "denom1" \in opts THEN <<"_denom1">> ELSE <<>>)

\* the scorer's configuration chosen by the options
ScorerConfig(opts) ==
  [n_hidden_layers |-> IF "shallow" \in opts THEN "shallow"
                       ELSE IF "deep" \in opts THEN "deep" ELSE "default",
   n_epochs |-> IF "debug" \in opts THEN "short"
                ELSE IF "long" \in opts THEN "long"
                ELSE IF "short" \in opts THEN "short" ELSE "default",
   early_stopping |-> ~("debug" \in opts)
                      /\ ("long" \in opts \/ ~("short" \in opts)),
   learn_log_r |-> ~("learns" \in opts)]

\* the names point_by_point_inference asserts its algorithm to be one of
PbpAlgorithms == {"carl", "regression"}

\* assert algorithm in ['carl', 'regression'], then the option flags
PbpSettings ==
  /\ prog = "point_by_point_inference" /\ pc = "settings"
  /\ UNCHANGED <<histovars, clivars>>
  /\ IF algorithm \in PbpAlgorithms
     THEN /\ filename_addition' = PbpFilenameAddition(options)
          /\ theta1' = IF "denom1" \in options THEN theta1_alternative
                       ELSE theta1_default
          /\ pc' = "data"
     ELSE /\ pc' = "failed"
          /\ UNCHANGED <<filename_addition, theta1>>
  /\ UNCHANGED <<prog, algorithm, options, scenario, benchmark, i, tt, decide,
                 samples, transformed, scaler, est, cal, expected_llr,
                 expected_llr_calibrated, llr_neyman_distributions,
                 llr_neyman_distributions_calibrated, store, calls>>

\* the shared samples, loaded once before the loop
PbpLoadData ==
  /\ prog = "point_by_point_inference" /\ pc = "data"
  /\ UNCHANGED <<histovars, clivars>>
  /\ samples' = [X_calibration |-> Load("X_calibration", -1, X_calibration_file),
                 weights_calibration |->
                   [t \in Thetas |-> weights_calibration_file(t)],
                 X_test |-> Load("X_test", -1, X_test_file),
                 X_neyman_observed |-> X_neyman_observed_file(scenario.wide),
                 X_train |-> <<>>, r_train |-> <<>>, y_train |-> <<>>]
  /\ calls' = calls \o
       <<Ev("load", "X_calibration", -1, -1, -1, -1, TRUE),
         Ev("load", "weights_calibration", -1, -1, -1, -1, TRUE),
         Ev("load", "X_test", -1, -1, -1, -1, TRUE),
         Ev("load", "r_test", -1, -1, -1, -1, TRUE),
         Ev("load", "X_neyman_observed", -1, -1, -1, -1, TRUE)>>
  /\ expected_llr' = <<>>
  /\ expected_llr_calibrated' = <<>>
  /\ i' = 1
  /\ pc' = IF Len(pbp_training_thetas) = 0 THEN "interpolate" ELSE "load"
  /\ UNCHANGED <<prog, algorithm, options, scenario, benchmark,
                 filename_addition, theta1, tt, decide, transformed, scaler,
                 est, cal, llr_neyman_distributions,
                 llr_neyman_distributions_calibrated, store>>

n_events_test == Len(samples.X_test)

\* "For some benchmark thetas, save r for each phase-space point"
SaveBenchmark(st, t, suffix, this_r) ==
  IF t = benchmark.nottrained
  THEN Save(st, "r_nottrained" \o suffix, -1, this_r)
  ELSE IF t = benchmark.trained
       THEN Save(st, "r_trained" \o suffix, -1, this_r)
       ELSE st

(***************************************************************************)
(* point_by_point_inference: the regression branch                         *)
(***************************************************************************)
\* a faulty variant: the scaler of the first iteration is kept for all later ones
StaleScaler(old, t, X) == IF old = None THEN StandardScalerFit(t, X) ELSE old

\* the scaler of an iteration: a new StandardScaler fit on this iteration's
\* training sample (`old` is the object the variable held before)
NewScaler(old, t, X) == StandardScalerFit(t, X)

\* the per-toy LLR sums of a flattened, transformed and scored toy batch
ToyLLR(log_r) == LLRSums(log_r)

\* load the training sample of hypothesis t; assert log(r_train) is finite
RegLoadTrain ==
  /\ prog = "point_by_point_inference" /\ pc = "load"
  /\ ~Raises("load", T)
  /\ UNCHANGED <<histovars, clivars>>
  /\ algorithm = "regression"
  /\ LET X_train == Load("X_train", T, X_train_file(T))
         r_train == Load("r_train", T, r_train_file(T))
     IN /\ samples' = [samples EXCEPT !.X_train = X_train, !.r_train = r_train]
        /\ calls' = calls \o
             <<Ev("load", "X_train", T, T, -1, -1, TRUE),
               Ev("load", "r_train", T, T, -1, -1, TRUE),
               Ev("assert", "log_r_train", T, T, -1, -1, Finite(r_train))>>
        /\ pc' = IF Finite(r_train) THEN "scale" ELSE "failed"
  /\ UNCHANGED <<prog, algorithm, options, scenario, benchmark,
                 filename_addition, theta1, i, tt, decide, transformed, scaler,
                 est, cal, expected_llr, expected_llr_calibrated,
                 llr_neyman_distributions, llr_neyman_distributions_calibrated,
                 store>>

\* fit the scaler, transform train, test and observed samples, assert finiteness
RegScale ==
  /\ prog = "point_by_point_inference" /\ pc = "scale"
  /\ UNCHANGED <<histovars, clivars>>
  /\ algorithm = "regression"
  /\ LET sc    == NewScaler(scaler, T, samples.X_train)
         train == Transform(sc, samples.X_train)
         test  == Transform(sc, samples.X_test)
         obs   == Transform(sc, Flatten(samples.X_neyman_observed))
     IN /\ scaler' = sc
        /\ transformed' = [X_train |-> train, X_test |-> test,
                           X_neyman_observed |-> obs, by |-> sc.id]
        /\ calls' = calls \o
             <<Ev("transform", "X_train", T, T, sc.id, -1, Finite(train)),
               Ev("transform", "X_test", -1, T, sc.id, -1, Finite(test)),
               Ev("transform", "X_neyman_observed", -1, T, sc.id, -1, Finite(obs)),
               Ev("assert", "X_train_transformed", T, T, sc.id, -1, Finite(train))>>
             \o (IF Finite(train)
                 THEN <<Ev("assert", "X_test_transformed", -1, T, sc.id, -1,
                           Finite(test))>>
                 ELSE <<>>)
        /\ samples' = AfterTransform(samples, test)
        /\ pc' = IF Finite(train) /\ Finite(test) THEN "fit" ELSE "failed"
  /\ UNCHANGED <<prog, algorithm, options, scenario, benchmark,
                 filename_addition, theta1, i, tt, decide, est, cal,
                 expected_llr, expected_llr_calibrated,
                 llr_neyman_distributions, llr_neyman_distributions_calibrated,
                 store>>

\* regr = KerasRegressor(...); regr.fit(X_train_transformed, np.log(r_train))
RegFit ==
  /\ prog = "point_by_point_inference" /\ pc = "fit"
  /\ ~Raises("fit", T)
  /\ UNCHANGED <<histovars, clivars>>
  /\ algorithm = "regression"
  /\ est' = [id |-> T, kind |-> "regr", shift |-> 0,
             nonfinite |-> T \in scenario.nonfinite,
             config |-> ScorerConfig(options)]
  /\ calls' = Append(calls, Ev("fit", "regr", T, T, transformed.by, T,
                               Finite(transformed.X_train)
                               /\ Finite(samples.r_train)))
  /\ pc' = "evaluate"
  /\ UNCHANGED <<prog, algorithm, options, scenario, benchmark,
                 filename_addition, theta1, i, tt, decide, samples,
                 transformed, scaler, cal, expected_llr,
                 expected_llr_calibrated, llr_neyman_distributions,
                 llr_neyman_distributions_calibrated, store>>

\* a variant in which a non-finite prediction ends the run
StopOnNonFinite(prediction) == IF Finite(prediction) THEN "observed" ELSE "failed"

\* "if not np.all(np.isfinite(prediction)): logging.warning(...)": the
\* statement after the check runs whatever the prediction holds
AfterWarning(prediction) == "observed"

\* score the test sample, warn on non-finite output, record the expected LLR
RegEvaluate ==
  /\ prog = "point_by_point_inference" /\ pc = "evaluate"
  /\ ~Raises("predict", T)
  /\ UNCHANGED <<histovars, clivars>>
  /\ algorithm = "regression"
  /\ LET prediction == PredictTest(est, transformed.X_test)
         this_r     == [k \in 1 .. Len(prediction) |-> Exp(prediction[k])]
     IN /\ calls' = calls \o
             <<Ev("predict", "X_test", -1, T, transformed.by, est.id,
                  Finite(prediction))>>
             \o (IF Finite(prediction) THEN <<>>
                 ELSE <<Ev("warning", "Regression output contains NaNs", -1, T,
                           -1, est.id, FALSE)>>)
             \o <<Ev("log", "this_r", -1, T, -1, est.id, Guarded(this_r))>>
        /\ expected_llr' =
             AppendMetric(expected_llr, ExpectedLLR(LogAll(this_r), n_events_test))
        /\ store' = SaveBenchmark(store, T, "", this_r)
  /\ pc' = AfterWarning(PredictTest(est, transformed.X_test))
  /\ UNCHANGED <<prog, algorithm, options, scenario, benchmark,
                 filename_addition, theta1, i, tt, decide, samples,
                 transformed, scaler, est, cal, expected_llr_calibrated,
                 llr_neyman_distributions, llr_neyman_distributions_calibrated>>

\* a variant that evaluates the observed sample in every iteration
AlwaysEvaluateObserved(row) == TRUE

\* whether the observed sample is evaluated in the iteration of hypothesis t:
\* "if decide_toy_evaluation(settings.theta_observed, t)"
EvaluateObserved(row) == row[theta_observed]

\* the observed Neyman sample, then the start of the loop over tt
RegNeymanObserved ==
  /\ prog = "point_by_point_inference" /\ pc = "observed"
  /\ UNCHANGED <<histovars, clivars>>
  /\ algorithm = "regression"
  /\ \E row \in [Thetas -> BOOLEAN] :
       /\ decide' = row
       /\ IF EvaluateObserved(row)
          THEN LET log_r == PredictLogR(est, transformed.X_neyman_observed)
               IN /\ calls' = Append(calls,
                       Ev("predict", "X_neyman_observed", -1, T,
                          transformed.by, est.id, Finite(log_r)))
                  /\ store' = Save(store, "neyman_llr_observed", T,
                                   ToyLLR(log_r))
          ELSE UNCHANGED <<calls, store>>
  /\ llr_neyman_distributions' = <<>>
  /\ tt' = 0
  /\ pc' = "toys"
  /\ UNCHANGED <<prog, algorithm, options, scenario, benchmark,
                 filename_addition, theta1, i, samples, transformed, scaler,
                 est, cal, expected_llr, expected_llr_calibrated,
                 llr_neyman_distributions_calibrated>>

\* a skipped combination (tt, t): the NaN placeholder row
RegNeymanSkip ==
  /\ prog = "point_by_point_inference" /\ pc = "toys"
  /\ UNCHANGED <<histovars, clivars>>
  /\ algorithm = "regression"
  /\ tt < NThetas /\ ~decide[tt]
  /\ llr_neyman_distributions' = Append(llr_neyman_distributions, Placeholder)
  /\ tt' = tt + 1
  /\ UNCHANGED <<prog, pc, algorithm, options, scenario, benchmark,
                 filename_addition, theta1, i, decide, samples, transformed,
                 scaler, est, cal, expected_llr, expected_llr_calibrated,
                 llr_neyman_distributions_calibrated, store, calls>>

\* an evaluated combination (tt, t): load, transform, score, sum per toy
RegNeymanEvaluate ==
  /\ prog = "point_by_point_inference" /\ pc = "toys"
  /\ UNCHANGED <<histovars, clivars>>
  /\ algorithm = "regression"
  /\ tt < NThetas /\ decide[tt]
  /\ LET X_neyman_distribution ==
           Load("X_neyman_distribution", tt, X_neyman_distribution_file(scenario.wide, tt))
         X_neyman_distribution_transformed ==
           Transform(scaler, Flatten(X_neyman_distribution))
         log_r == PredictLogR(est, X_neyman_distribution_transformed)
     IN /\ calls' = calls \o
             <<Ev("load", "X_neyman_distribution", tt, T, -1, -1, TRUE),
               Ev("transform", "X_neyman_distribution", tt, T, scaler.id, -1,
                  TRUE),
               Ev("predict", "X_neyman_distribution", tt, T, scaler.id, est.id,
                  Finite(log_r))>>
        /\ llr_neyman_distributions' =
             Append(llr_neyman_distributions, ToyLLR(log_r))
  /\ tt' = tt + 1
  /\ UNCHANGED <<prog, pc, algorithm, options, scenario, benchmark,
                 filename_addition, theta1, i, decide, samples, transformed,
                 scaler, est, cal, expected_llr, expected_llr_calibrated,
                 llr_neyman_distributions_calibrated, store>>

\* np.save of the distribution array of hypothesis t; on to the next hypothesis
RegSaveDistributions ==
  /\ prog = "point_by_point_inference" /\ pc = "toys"
  /\ UNCHANGED <<histovars, clivars>>
  /\ algorithm = "regression"
  /\ tt = NThetas
  /\ store' = Save(store, "neyman_llr_distribution", T, llr_neyman_distributions)
  /\ i' = i + 1
  /\ pc' = IF i + 1 > Len(pbp_training_thetas) THEN "interpolate" ELSE "load"
  /\ UNCHANGED <<prog, algorithm, options, scenario, benchmark,
                 filename_addition, theta1, tt, decide, samples, transformed,
                 scaler, est, cal, expected_llr, expected_llr_calibrated,
                 llr_neyman_distributions, llr_neyman_distributions_calibrated,
                 calls>>

(***************************************************************************)
(* Interpolation of the expected LLR over the grid.  settings.thetas[k]    *)
(* is the point k of a line; the hull of the training points is the        *)
(* interval between the smallest and the largest of them.                  *)
(***************************************************************************)
thetas == [k \in Thetas |-> k]

TrainingPoints == {thetas[pbp_training_thetas[k]] : k \in 1 .. Len(pbp_training_thetas)}

\* the value recorded for the training hypothesis at point x
ValueAt(values, x) ==
  values[CHOOSE k \in 1 .. Len(pbp_training_thetas) :
           thetas[pbp_training_thetas[k]] = x]

\* a variant that fills the points outside the hull with the value of the
\* nearest training point
NearestValue(values, x) ==
  ValueAt(values, CHOOSE p \in TrainingPoints :
                    \A q \in TrainingPoints :
                      (IF p > x THEN p - x ELSE x - p)
                        <= (IF q > x THEN q - x ELSE x - q))

\* LinearNDInterpolator(points, values)(x)
Interpolate(values, x) ==
  IF x \in TrainingPoints THEN ValueAt(values, x)
  ELSE IF (\A p \in TrainingPoints : p > x) \/ (\A p \in TrainingPoints : p < x)
  THEN NaNQ
  ELSE LET lo == CHOOSE p \in TrainingPoints :
                   p < x /\ \A q \in TrainingPoints : q < x => q <= p
           hi == CHOOSE p \in TrainingPoints :
                   p > x /\ \A q \in TrainingPoints : q > x => q >= p
           vlo == ValueAt(values, lo)
           vhi == ValueAt(values, hi)
       IN IF vlo = NaNQ \/ vhi = NaNQ THEN NaNQ
          ELSE [num |-> vlo.num * (hi - x) * vhi.den + vhi.num * (x - lo) * vlo.den,
                den |-> vlo.den * vhi.den * (hi - lo)]

InterpolateAll(values) == [k \in Thetas |-> Interpolate(values, thetas[k])]

\* np.asarray(expected_llr), interpolation over the grid, np.save
RegInterpolate ==
  /\ prog = "point_by_point_inference" /\ pc = "interpolate"
  /\ UNCHANGED <<histovars, clivars>>
  /\ algorithm = "regression"
  /\ store' = Save(store, "llr", -1, InterpolateAll(expected_llr))
  /\ pc' = "done"
  /\ UNCHANGED <<prog, algorithm, options, scenario, benchmark,
                 filename_addition, theta1, i, tt, decide, samples,
                 transformed, scaler, est, cal, expected_llr,
                 expected_llr_calibrated, llr_neyman_distributions,
                 llr_neyman_distributions_calibrated, calls>>

(***************************************************************************)
(* point_by_point_inference: the carl branch                               *)
(***************************************************************************)
\* load the training sample of hypothesis t
CarlLoadTrain ==
  /\ prog = "point_by_point_inference" /\ pc = "load"
  /\ ~Raises("load", T)
  /\ UNCHANGED <<histovars, clivars>>
  /\ algorithm = "carl"
  /\ samples' = [samples EXCEPT !.X_train = Load("X_train", T, X_train_file(T)),
                                !.y_train = y_train_file(T)]
  /\ calls' = calls \o
       <<Ev("load", "X_train", T, T, -1, -1, TRUE),
         Ev("load", "y_train", T, T, -1, -1, TRUE)>>
  /\ pc' = "scale"
  /\ UNCHANGED <<prog, algorithm, options, scenario, benchmark,
                 filename_addition, theta1, i, tt, decide, transformed, scaler,
                 est, cal, expected_llr, expected_llr_calibrated,
                 llr_neyman_distributions, llr_neyman_distributions_calibrated,
                 store>>

\* fit the scaler; transform train, test, calibration and observed samples
CarlScale ==
  /\ prog = "point_by_point_inference" /\ pc = "scale"
  /\ UNCHANGED <<histovars, clivars>>
  /\ algorithm = "carl"
  /\ LET sc    == NewScaler(scaler, T, samples.X_train)
         train == Transform(sc, samples.X_train)
         test  == Transform(sc, samples.X_test)
         calib == Transform(sc, samples.X_calibration)
         obs   == Transform(sc, Flatten(samples.X_neyman_observed))
     IN /\ scaler' = sc
        /\ transformed' = [X_train |-> train, X_test |-> test,
                           X_calibration |-> calib,
                           X_neyman_observed |-> obs, by |-> sc.id]
        /\ calls' = calls \o
             <<Ev("transform", "X_train", T, T, sc.id, -1, Finite(train)),
               Ev("transform", "X_test", -1, T, sc.id, -1, Finite(test)),
               Ev("transform", "X_calibration", -1, T, sc.id, -1, Finite(calib)),
               Ev("transform", "X_neyman_observed", -1, T, sc.id, -1, Finite(obs))>>
        /\ samples' = AfterTransform(samples, test)
  /\ pc' = "fit"
  /\ UNCHANGED <<prog, algorithm, options, scenario, benchmark,
                 filename_addition, theta1, i, tt, decide, est, cal,
                 expected_llr, expected_llr_calibrated,
                 llr_neyman_distributions, llr_neyman_distributions_calibrated,
                 store>>

\* clf = KerasRegressor(...); clf.fit(X_train_transformed, y_train);
\* ratio = ClassifierScoreRatio(clf, prefit=True)
CarlFit ==
  /\ prog = "point_by_point_inference" /\ pc = "fit"
  /\ ~Raises("fit", T)
  /\ UNCHANGED <<histovars, clivars>>
  /\ algorithm = "carl"
  /\ est' = [id |-> T, kind |-> "clf", shift |-> 0,
             nonfinite |-> T \in scenario.nonfinite
                           \/ ~Finite(transformed.X_train),
             config |-> ScorerConfig(options)]
  /\ calls' = Append(calls, Ev("fit", "clf", T, T, transformed.by, T,
                               Finite(transformed.X_train)))
  /\ pc' = "evaluate"
  /\ UNCHANGED <<prog, algorithm, options, scenario, benchmark,
                 filename_addition, theta1, i, tt, decide, samples,
                 transformed, scaler, cal, expected_llr,
                 expected_llr_calibrated, llr_neyman_distributions,
                 llr_neyman_distributions_calibrated, store>>

\* score the test sample with the raw ratio, record the expected LLR
CarlEvaluate ==
  /\ prog = "point_by_point_inference" /\ pc = "evaluate"
  /\ ~Raises("predict", T)
  /\ UNCHANGED <<histovars, clivars>>
  /\ algorithm = "carl"
  /\ LET this_r == RatioPredictTest(est, transformed.X_test)
     IN /\ calls' = calls \o
             <<Ev("predict", "X_test", -1, T, transformed.by, est.id,
                  Finite(LogAll(this_r))),
               Ev("log", "this_r", -1, T, -1, est.id, Guarded(this_r))>>
        /\ expected_llr' =
             AppendMetric(expected_llr, ExpectedLLR(LogAll(this_r), n_events_test))
        /\ store' = SaveBenchmark(store, T, "", this_r)
  /\ pc' = "calibrate"
  /\ UNCHANGED <<prog, algorithm, options, scenario, benchmark,
                 filename_addition, theta1, i, tt, decide, samples,
                 transformed, scaler, est, cal, expected_llr_calibrated,
                 llr_neyman_distributions, llr_neyman_distributions_calibrated>>

\* a faulty variant: both halves carry the weights of hypothesis t
MixtureWeightsOfT(X_calibration_transformed, weights, t, th1) ==
  LET n == Len(X_calibration_transformed)
  IN [X_calibration_both |->
        [k \in 1 .. 2 * n |->
           X_calibration_transformed[IF k <= n THEN k ELSE k - n]],
      y_calibration |-> [k \in 1 .. 2 * n |-> IF k <= n THEN 0 ELSE 1],
      w_calibration |->
        [k \in 1 .. 2 * n |-> weights[t][IF k <= n THEN k ELSE k - n]]]

\* the calibration mixture: the calibration rows twice, labels 0 then 1,
\* weights of hypothesis t then of theta1
CalibrationMixture(X_calibration_transformed, weights, t, th1) ==
  LET n == Len(X_calibration_transformed)
  IN [X_calibration_both |->
        [k \in 1 .. 2 * n |->
           X_calibration_transformed[IF k <= n THEN k ELSE k - n]],
      y_calibration |-> [k \in 1 .. 2 * n |-> IF k <= n THEN 0 ELSE 1],
      w_calibration |->
        [k \in 1 .. 2 * n |->
           IF k <= n THEN weights[t][k] ELSE weights[th1][k - n]]]

\* fit the calibrated ratio on the mixture, score the test sample with it
CarlCalibrate ==
  /\ prog = "point_by_point_inference" /\ pc = "calibrate"
  /\ UNCHANGED <<histovars, clivars>>
  /\ algorithm = "carl"
  /\ LET n_calibration_each == Len(transformed.X_calibration)
         mix == CalibrationMixture(transformed.X_calibration,
                                   samples.weights_calibration, T, theta1)
         ratio_calibrated ==
           [id |-> T, kind |-> "calibrated", shift |-> 1,
            nonfinite |-> est.nonfinite, config |-> est.config,
            fit_on |-> mix]
         this_r == RatioPredictTest(ratio_calibrated, transformed.X_test)
         calvalues == SubSeq(PredictLogR(est, mix.X_calibration_both), 1,
                             n_calibration_each)
         st1 == SaveBenchmark(store, T, "_calibrated", this_r)
     IN /\ cal' = ratio_calibrated
        /\ calls' = calls \o
             <<Ev("fit", "ratio_calibrated", T, T, transformed.by, T,
                  Finite(mix.X_calibration_both)),
               Ev("predict", "X_test", -1, T, transformed.by, T,
                  Finite(LogAll(this_r))),
               Ev("log", "this_r_calibrated", -1, T, -1, T, Guarded(this_r))>>
        /\ expected_llr_calibrated' =
             AppendMetric(expected_llr_calibrated,
                          ExpectedLLR(LogAll(this_r), n_events_test))
        /\ store' = IF T = benchmark.nottrained
                    THEN Save(st1, "calvalues_nottrained", -1, calvalues)
                    ELSE IF T = benchmark.trained
                         THEN Save(st1, "calvalues_trained", -1, calvalues)
                         ELSE st1
  /\ pc' = "observed"
  /\ UNCHANGED <<prog, algorithm, options, scenario, benchmark,
                 filename_addition, theta1, i, tt, decide, samples,
                 transformed, scaler, est, expected_llr,
                 llr_neyman_distributions, llr_neyman_distributions_calibrated>>

\* the observed Neyman sample (raw and calibrated), then the loop over tt
CarlNeymanObserved ==
  /\ prog = "point_by_point_inference" /\ pc = "observed"
  /\ UNCHANGED <<histovars, clivars>>
  /\ algorithm = "carl"
  /\ \E row \in [Thetas -> BOOLEAN] :
       /\ decide' = row
       /\ IF EvaluateObserved(row)
          THEN LET r_raw == RatioPredict(est, transformed.X_neyman_observed)
                   r_cal == RatioPredict(cal, transformed.X_neyman_observed)
               IN /\ calls' = calls \o
                       <<Ev("predict", "X_neyman_observed", -1, T,
                            transformed.by, est.id, Finite(LogAll(r_raw))),
                         Ev("log", "r_neyman_observed", -1, T, -1, est.id, Guarded(r_raw)),
                         Ev("predict", "X_neyman_observed", -1, T,
                            transformed.by, cal.id, Finite(LogAll(r_cal))),
                         Ev("log", "r_neyman_observed_calibrated", -1, T, -1,
                            cal.id, Guarded(r_cal))>>
                  /\ store' =
                       Save(Save(store, "neyman_llr_observed", T,
                                 ToyLLR(LogAll(r_raw))),
                            "neyman_llr_observed_calibrated", T,
                            ToyLLR(LogAll(r_cal)))
          ELSE UNCHANGED <<calls, store>>
  /\ llr_neyman_distributions' = <<>>
  /\ llr_neyman_distributions_calibrated' = <<>>
  /\ tt' = 0
  /\ pc' = "toys"
  /\ UNCHANGED <<prog, algorithm, options, scenario, benchmark,
                 filename_addition, theta1, i, samples, transformed, scaler,
                 est, cal, expected_llr, expected_llr_calibrated>>

\* a skipped combination (tt, t): the placeholder goes to the raw list only
CarlNeymanSkip ==
  /\ prog = "point_by_point_inference" /\ pc = "toys"
  /\ UNCHANGED <<histovars, clivars>>
  /\ algorithm = "carl"
  /\ tt < NThetas /\ ~decide[tt]
  /\ llr_neyman_distributions' = Append(llr_neyman_distributions, Placeholder)
  /\ tt' = tt + 1
  /\ UNCHANGED <<prog, pc, algorithm, options, scenario, benchmark,
                 filename_addition, theta1, i, decide, samples, transformed,
                 scaler, est, cal, expected_llr, expected_llr_calibrated,
                 llr_neyman_distributions_calibrated, store, calls>>

\* an evaluated combination (tt, t): raw and calibrated per-toy sums
CarlNeymanEvaluate ==
  /\ prog = "point_by_point_inference" /\ pc = "toys"
  /\ UNCHANGED <<histovars, clivars>>
  /\ algorithm = "carl"
  /\ tt < NThetas /\ decide[tt]
  /\ LET X_neyman_distribution ==
           Load("X_neyman_distribution", tt, X_neyman_distribution_file(scenario.wide, tt))
         X_neyman_distribution_transformed ==
           Transform(scaler, Flatten(X_neyman_distribution))
         r_raw == RatioPredict(est, X_neyman_distribution_transformed)
         r_cal == RatioPredict(cal, X_neyman_distribution_transformed)
     IN /\ calls' = calls \o
             <<Ev("load", "X_neyman_distribution", tt, T, -1, -1, TRUE),
               Ev("transform", "X_neyman_distribution", tt, T, scaler.id, -1,
                  TRUE),
               Ev("predict", "X_neyman_distribution", tt, T, scaler.id, est.id,
                  Finite(LogAll(r_raw))),
               Ev("log", "r_neyman_distribution", tt, T, -1, est.id, Guarded(r_raw)),
               Ev("predict", "X_neyman_distribution", tt, T, scaler.id, cal.id,
                  Finite(LogAll(r_cal))),
               Ev("log", "r_neyman_distribution_calibrated", tt, T, -1, cal.id,
                  Guarded(r_cal))>>
        /\ llr_neyman_distributions' =
             Append(llr_neyman_distributions, ToyLLR(LogAll(r_raw)))
        /\ llr_neyman_distributions_calibrated' =
             Append(llr_neyman_distributions_calibrated, ToyLLR(LogAll(r_cal)))
  /\ tt' = tt + 1
  /\ UNCHANGED <<prog, pc, algorithm, options, scenario, benchmark,
                 filename_addition, theta1, i, decide, samples, transformed,
                 scaler, est, cal, expected_llr, expected_llr_calibrated,
                 store>>

\* np.save of both distribution arrays of hypothesis t; next hypothesis
CarlSaveDistributions ==
  /\ prog = "point_by_point_inference" /\ pc = "toys"
  /\ UNCHANGED <<histovars, clivars>>
  /\ algorithm = "carl"
  /\ tt = NThetas
  /\ store' = Save(Save(store, "neyman_llr_distribution", T,
                        llr_neyman_distributions),
                   "neyman_llr_distribution_calibrated", T,
                   llr_neyman_distributions_calibrated)
  /\ i' = i + 1
  /\ pc' = IF i + 1 > Len(pbp_training_thetas) THEN "interpolate" ELSE "load"
  /\ UNCHANGED <<prog, algorithm, options, scenario, benchmark,
                 filename_addition, theta1, tt, decide, samples, transformed,
                 scaler, est, cal, expected_llr, expected_llr_calibrated,
                 llr_neyman_distributions, llr_neyman_distributions_calibrated,
                 calls>>

\* interpolation of the raw and of the calibrated expected LLR, np.save of both
CarlInterpolate ==
  /\ prog = "point_by_point_inference" /\ pc = "interpolate"
  /\ UNCHANGED <<histovars, clivars>>
  /\ algorithm = "carl"
  /\ store' = Save(Save(store, "llr", -1, InterpolateAll(expected_llr)),
                   "expected_llr_calibrated", -1,
                   InterpolateAll(expected_llr_calibrated))
  /\ pc' = "done"
  /\ UNCHANGED <<prog, algorithm, options, scenario, benchmark,
                 filename_addition, theta1, i, tt, decide, samples,
                 transformed, scaler, est, cal, expected_llr,
                 expected_llr_calibrated, llr_neyman_distributions,
                 llr_neyman_distributions_calibrated, calls>>

\* an exception of np.load, fit or predict in the loop: nothing catches it,
\* the run ends
PbpRaise ==
  /\ prog = "point_by_point_inference" /\ pc \in {"load", "fit", "evaluate"}
  /\ UNCHANGED <<histovars, clivars>>
  /\ Raises(StepOp(pc), T)
  /\ calls' = Append(calls, Ev("raise", StepOp(pc), T, T, -1, -1, FALSE))
  /\ pc' = Propagate(pc)
  /\ UNCHANGED <<prog, algorithm, options, scenario, benchmark,
                 filename_addition, theta1, i, tt, decide, samples,
                 transformed, scaler, est, cal, expected_llr,
                 expected_llr_calibrated, llr_neyman_distributions,
                 llr_neyman_distributions_calibrated, store>>

PbpNext ==
  \/ PbpSettings \/ PbpLoadData \/ PbpRaise
  \/ RegLoadTrain \/ RegScale \/ RegFit \/ RegEvaluate \/ RegNeymanObserved
  \/ RegNeymanSkip \/ RegNeymanEvaluate \/ RegSaveDistributions
  \/ RegInterpolate
  \/ CarlLoadTrain \/ CarlScale \/ CarlFit \/ CarlEvaluate \/ CarlCalibrate
  \/ CarlNeymanObserved \/ CarlNeymanSkip \/ CarlNeymanEvaluate
  \/ CarlSaveDistributions \/ CarlInterpolate

(***************************************************************************)
(* histo_inference: binning                                                *)
(***************************************************************************)
\* np.pi, in units of 1/10000 rad
Pi == 31416

\* the upper end of the pT range
PtMax == 14000

\* the margin 0.1 around the delta-phi range in adaptive mode
Margin == 1000

\* np.linspace(a, b, n): n points, the last one exactly b
Linspace(a, b, n) ==
  [k \in 1 .. n |-> IF k = n THEN b ELSE a + ((b - a) * (k - 1)) \div (n - 1)]

bins_pt_default ==
  <<0, 48, 58, 67, 75, 83, 91, 100, 109, 119, 130, 141, 155, 172, 193,
    221, 260, 325, 462, 14000>>

bins_pt_superfine ==
  <<0, 35, 40, 44, 47, 50, 53, 55, 58, 60, 62, 64, 66, 68, 70, 72, 74, 76,
    78, 80, 82, 84, 86, 88, 90, 92, 94, 95, 97, 100, 102, 104, 106, 108,
    110, 113, 115, 118, 120, 123, 125, 128, 131, 134, 137, 139, 142, 145,
    149, 152, 156, 159, 163, 167, 172, 176, 181, 186, 192, 197, 203, 210,
    218, 225, 235, 244, 255, 266, 280, 294, 311, 331, 355, 385, 424, 470,
    539, 657, 872, 14000>>

bins_pt_fine ==
  <<0, 40, 47, 53, 58, 62, 67, 70, 74, 78, 82, 86, 90, 94, 98, 103, 107,
    111, 116, 122, 127, 132, 138, 144, 151, 158, 166, 174, 184, 196, 209,
    224, 242, 264, 292, 329, 382, 468, 654, 14000>>

bins_pt_rough == <<0, 59, 77, 94, 113, 136, 166, 213, 315, 14000>>

\* the pT edges of the 1-d pT histogram (set regardless of the granularity)
bins_pt_1d ==
  <<0, 40, 47, 53, 58, 62, 67, 70, 74, 78, 82, 86, 90, 94, 98, 103, 107,
    111, 116, 122, 127, 132, 138, 144, 151, 158, 166, 174, 184, 196, 209,
    224, 242, 264, 292, 329, 382, 468, 654, 14000>>

\* the tabulated pT edges chosen by the granularity options
FixedBinsPt(opts) ==
  IF "superbinning" \in opts THEN bins_pt_superfine
  ELSE IF "finebinning" \in opts THEN bins_pt_fine
  ELSE IF "roughbinning" \in opts THEN bins_pt_rough
  ELSE bins_pt_default

\* the delta-phi edges chosen by the granularity options
FixedBinsDeltaphi(opts) ==
  IF "superbinning" \in opts THEN Linspace(0, Pi, 16)
  ELSE IF "finebinning" \in opts THEN Linspace(0, Pi, 13)
  ELSE IF "roughbinning" \in opts THEN Linspace(0, Pi, 7)
  ELSE Linspace(0, Pi, 11)

DimSuffix(n) == IF n = 1 THEN "_1d" ELSE IF n = 2 THEN "_2d" ELSE "_nd"

\* "Manually chosen histogram binning": the edges, the key prefix, or ValueError
ManualBinning(ix, mode, opts) ==
  IF mode \notin {"optimized", "adaptive"}
  THEN [error |-> FALSE, bins |-> <<>>, prefix |-> DimSuffix(Len(ix))]
  ELSE IF ix = <<1, 41>>
  THEN [error |-> FALSE, bins |-> <<FixedBinsPt(opts), FixedBinsDeltaphi(opts)>>,
        prefix |-> DimSuffix(Len(ix))]
  ELSE IF ix = <<41, 1>>
  THEN [error |-> FALSE, bins |-> <<FixedBinsDeltaphi(opts), FixedBinsPt(opts)>>,
        prefix |-> DimSuffix(Len(ix))]
  ELSE IF ix = <<1>>
  THEN [error |-> FALSE, bins |-> <<bins_pt_1d>>, prefix |-> "_ptj"]
  ELSE IF ix = <<41>>
  THEN [error |-> FALSE, bins |-> <<Linspace(0, Pi, 21)>>, prefix |-> "_deltaphi"]
  ELSE [error |-> TRUE, bins |-> <<>>, prefix |-> DimSuffix(Len(ix))]

\* the granularity named in the result key
GranularitySuffix(opts) ==
  IF "asymmetricbinning" \in opts THEN <<"_asymmetricbinning">>
  ELSE IF "superbinning" \in opts THEN <<"_superfinebinning">>
  ELSE IF "finebinning" \in opts THEN <<"_finebinning">>
  ELSE IF "roughbinning" \in opts THEN <<"_roughbinning">>
  ELSE <<>>

HistoFilenameAddition(prefix, opts, smearing, denom) ==
     <<prefix>> \o GranularitySuffix(opts)
  \o (IF smearing THEN <<"_smeared">> ELSE <<>>)
  \o (IF denom > 0 THEN <<"_denom">> ELSE <<>>)
  \o (IF "new" \in opts THEN <<"_new">> ELSE <<>>)

\* neyman_filename
NeymanFilename(opts) ==
  IF "neyman3" \in opts THEN "neyman3"
  ELSE IF "neyman2" \in opts THEN "neyman2" ELSE "neyman"

\* n_expected_events_neyman: events per toy of the chosen Neyman samples
NExpectedEventsNeyman(opts) ==
  IF "neyman3" \in opts THEN NEvents + 2
  ELSE IF "neyman2" \in opts THEN NEvents + 1 ELSE NEvents

RECURSIVE Insert(_, _)
Insert(x, s) ==
  IF s = <<>> THEN <<x>>
  ELSE IF x <= Head(s) THEN <<x>> \o s ELSE <<Head(s)>> \o Insert(x, Tail(s))

RECURSIVE Sort(_)
Sort(s) == IF s = <<>> THEN <<>> ELSE Insert(Head(s), Sort(Tail(s)))

\* np.percentile(col, np.linspace(0., 100., n)): linear interpolation between
\* the order statistics
Percentiles(col, n) ==
  LET a == Sort(col)
      m == Len(a)
  IN [k \in 1 .. n |->
        LET pos  == (k - 1) * (m - 1)
            lo   == 1 + (pos \div (n - 1))
            frac == pos % (n - 1)
        IN IF frac = 0 THEN a[lo]
           ELSE a[lo] + ((a[lo + 1] - a[lo]) * frac) \div (n - 1)]

\* a faulty variant: only the first edge is overwritten
SetFirstEnd(edges, first, last) ==
  [k \in 1 .. Len(edges) |-> IF k = 1 THEN first ELSE edges[k]]

\* edges[0] = first; edges[-1] = last
SetEnds(edges, first, last) ==
  [k \in 1 .. Len(edges) |->
     IF k = Len(edges) THEN last ELSE IF k = 1 THEN first ELSE edges[k]]

Column(summary, j) == [k \in 1 .. Len(summary) |-> summary[k][j]]

\* the bin counts of the adaptive 2-d histogram
AdaptiveNBinsPt(opts) ==
  IF "roughbinning" \in opts THEN 10
  ELSE IF "finebinning" \in opts THEN 30
  ELSE IF "superbinning" \in opts THEN 50
  ELSE IF "asymmetricbinning" \in opts THEN 50
  ELSE 20

AdaptiveNBinsDeltaphi(opts) ==
  IF "roughbinning" \in opts THEN 5
  ELSE IF "finebinning" \in opts THEN 15
  ELSE IF "superbinning" \in opts THEN 20
  ELSE IF "asymmetricbinning" \in opts THEN 5
  ELSE 10

\* the first and last pT edge written over the percentiles
PtEdges(col, n) == SetEnds(Percentiles(col, n), 0, PtMax)

\* the first and last delta-phi edge written over the percentiles
DeltaphiEdges(col, n) == SetEnds(Percentiles(col, n), 0 - Margin, Pi + Margin)

\* "Adaptive binning": percentile edges of this iteration's training sample
AdaptiveBinning(ix, opts, summary_statistics_train) ==
  IF ix = <<1, 41>>
  THEN [error |-> FALSE,
        bins |-> <<PtEdges(Column(summary_statistics_train, 1),
                           AdaptiveNBinsPt(opts)),
                   DeltaphiEdges(Column(summary_statistics_train, 2),
                                 AdaptiveNBinsDeltaphi(opts))>>]
  ELSE IF ix = <<1>>
  THEN [error |-> FALSE,
        bins |-> <<PtEdges(Column(summary_statistics_train, 1), 80)>>]
  ELSE IF ix = <<41>>
  THEN [error |-> FALSE,
        bins |-> <<DeltaphiEdges(Column(summary_statistics_train, 1), 20)>>]
  ELSE [error |-> TRUE, bins |-> <<>>]

(***************************************************************************)
(* histo_inference: samples, estimator and metrics                         *)
(***************************************************************************)
Features == {1, 38, 39, 40, 41}

\* one event: pT(j1) in column 1, delta_phi(jj) in column 41
Event(pt, dphi) ==
  [f \in Features |-> IF f = 1 THEN pt ELSE IF f = 41 THEN dphi ELSE f]

\* X[:, indices_X]
Select(X, ix) == [k \in 1 .. Len(X) |-> [j \in 1 .. Len(ix) |-> X[k][ix[j]]]]

\* the training sample of hypothesis t; family 2 lies partly outside the
\* declared ranges of pT and delta-phi
Histo_X_train_file(family, t) ==
  IF family = 1
  THEN <<Event(30 + t, 1000), Event(80, 15000 + t), Event(200, 20000),
         Event(500, 31000)>>
  ELSE <<Event(20000, 0 - 5000), Event(90 + t, 40000), Event(15, 12000),
         Event(700, 3000 + t), Event(60, 900)>>

Histo_y_train_file(family, t) ==
  [k \in 1 .. Len(Histo_X_train_file(family, t)) |-> (k + t) % 2]

\* ground-truth ratios, carried by their logarithms
Histo_r_train_file(family, t) ==
  [k \in 1 .. Len(Histo_X_train_file(family, t)) |-> ((k + t) % 3) - 1]

Histo_X_test_file == [k \in 1 .. NTest |-> Event(40 * k, 7000 * k)]

Histo_r_test_file == r_test_file

Histo_X_illustration_file == <<Event(100, 10000)>>

\* toy batches: toys x events-per-toy x features
Histo_X_neyman_file(wide, t, n_events) ==
  [toy \in 1 .. NToys |->
     [ev \in 1 .. StoredEvents(wide, n_events) |->
        Event(50 * toy + t, 3000 * ev)]]

\* NDHistogramCalibrator.predict: a score for each row, in quarters (0 .. 4),
\* the boundaries 0 and 1 included
HistoPredict(histogram, summary) ==
  [k \in 1 .. Len(summary) |-> (SumSeq(summary[k]) + histogram.id) % 5]

\* histogram.predict(summary_statistics_test): the histogram's scores, or,
\* when the run replaces the estimator by an oracle, the scores of the true
\* ratios
HistoPredictTest(histogram, summary) ==
  IF scenario.oracle
  THEN [k \in 1 .. Len(summary) |-> r_test_file[histogram.id][k] + 2]
  ELSE HistoPredict(histogram, summary)

\* r_from_s(s): the ratio of a score, the score first kept off 0 and 1.  The
\* result is a guarded ratio carried by its logarithm.
r_from_s(s) ==
  [k \in 1 .. Len(s) |->
     [logr |-> IF s[k] = 0 THEN 0 - 14 ELSE IF s[k] = 4 THEN 14
               ELSE s[k] - 2,
      guarded |-> TRUE]]

\* np.log of a raw score (in tenths); log(0) is not finite
LogScore(k) ==
  IF k = 0 THEN NaN ELSE IF k = 1 THEN 0 - 14 ELSE IF k = 2 THEN 0 - 7
  ELSE IF k = 3 THEN 0 - 3 ELSE 0

MulNaN(a, b) == IF a = NaN \/ b = NaN THEN NaN ELSE a * b

AddNaN(a, b) == IF a = NaN \/ b = NaN THEN NaN ELSE a + b

Mean(v) == IF SumSeq(v) = NaN THEN NaN ELSE SumSeq(v) \div Len(v)

\* - (y * np.log(s) + (1 - y) * np.log(1 - s)), then np.mean
CrossEntropy(y, s) ==
  Mean([k \in 1 .. Len(s) |->
          Times(-1, AddNaN(MulNaN(y[k], LogScore(s[k])),
                           MulNaN(1 - y[k], LogScore(4 - s[k]))))])

RECURSIVE MaxSeq(_)
MaxSeq(s) ==
  IF Len(s) = 1 THEN Head(s)
  ELSE IF Head(s) >= MaxSeq(Tail(s)) THEN Head(s) ELSE MaxSeq(Tail(s))

RECURSIVE RemoveOne(_, _)
RemoveOne(s, x) ==
  IF s = <<>> THEN <<>>
  ELSE IF Head(s) = x THEN Tail(s) ELSE <<Head(s)>> \o RemoveOne(Tail(s), x)

\* calculate_mean_squared_error(y_true, y_pred, trim): the mean squared
\* residual; with 'auto' the most extreme residual is left out
calculate_mean_squared_error(y_true, y_pred, trim) ==
  LET sq == [k \in 1 .. Len(y_pred) |->
               IF y_true[k] = NaN \/ y_pred[k] = NaN THEN NaN
               ELSE (y_true[k] - y_pred[k]) * (y_true[k] - y_pred[k])]
  IN IF ~Finite(sq) THEN NaN
     ELSE IF trim = "auto" /\ Len(sq) > 1 THEN Mean(RemoveOne(sq, MaxSeq(sq)))
     ELSE Mean(sq)

\* the hypothesis of iteration i of histo_inference: enumerate(settings.thetas)
HT == i - 1

(***************************************************************************)
(* histo_inference: the run                                                *)
(***************************************************************************)
\* the option flags, the manual binning (or ValueError), the key suffix
HistoSettings ==
  /\ prog = "histo_inference" /\ pc = "settings"
  /\ UNCHANGED clivars
  /\ LET manual == ManualBinning(indices_X, binning, options)
     IN IF manual.error
        THEN /\ pc' = "failed"
             /\ UNCHANGED <<bins, filename_addition>>
        ELSE /\ bins' = manual.bins
             /\ filename_addition' =
                  HistoFilenameAddition(manual.prefix, options, use_smearing,
                                        denominator)
             /\ pc' = "data"
  /\ UNCHANGED <<prog, algorithm, options, scenario, benchmark, theta1, i, tt,
                 decide, samples, transformed, scaler, est, cal, expected_llr,
                 expected_llr_calibrated, llr_neyman_distributions,
                 llr_neyman_distributions_calibrated, store, calls, indices_X,
                 binning, use_smearing, denominator, do_neyman, mse_log_r,
                 trimmed_mse_log_r, mse_log_r_train, cross_entropies_train>>

\* the shared samples, loaded once before the loop; the empty series
HistoLoadData ==
  /\ prog = "histo_inference" /\ pc = "data"
  /\ UNCHANGED clivars
  /\ samples' = [X_test |-> Histo_X_test_file, r_test |-> Histo_r_test_file,
                 X_illustration |-> Histo_X_illustration_file,
                 X_neyman_alternate |->
                   IF do_neyman
                   THEN Histo_X_neyman_file(scenario.wide, theta_observed,
                                            NExpectedEventsNeyman(options))
                   ELSE <<>>,
                 X_train |-> <<>>, y_train |-> <<>>, r_train |-> <<>>]
  /\ calls' = calls \o
       <<Ev("load", "X_test", -1, -1, -1, -1, TRUE),
         Ev("load", "r_test", -1, -1, -1, -1, TRUE),
         Ev("load", "X_illustration", -1, -1, -1, -1, TRUE)>>
       \o (IF do_neyman
           THEN <<Ev("load", "X_neyman_alternate", -1, -1, -1, -1, TRUE)>>
           ELSE <<>>)
  /\ expected_llr' = <<>>
  /\ mse_log_r' = <<>>
  /\ trimmed_mse_log_r' = <<>>
  /\ mse_log_r_train' = <<>>
  /\ cross_entropies_train' = <<>>
  /\ i' = 1
  /\ pc' = IF NThetas = 0 THEN "save" ELSE "load"
  /\ UNCHANGED <<prog, algorithm, options, scenario, benchmark,
                 filename_addition, theta1, tt, decide, transformed, scaler,
                 est, cal, expected_llr_calibrated, llr_neyman_distributions,
                 llr_neyman_distributions_calibrated, store, indices_X,
                 binning, use_smearing, denominator, do_neyman, bins>>

\* load the training sample of hypothesis t
HistoLoadTrain ==
  /\ prog = "histo_inference" /\ pc = "load"
  /\ ~Raises("load", HT)
  /\ UNCHANGED clivars
  /\ samples' = [samples EXCEPT
                   !.X_train = Histo_X_train_file(scenario.family, HT),
                   !.y_train = Histo_y_train_file(scenario.family, HT),
                   !.r_train = Histo_r_train_file(scenario.family, HT)]
  /\ calls' = calls \o
       <<Ev("load", "X_train", HT, HT, -1, -1, TRUE),
         Ev("load", "y_train", HT, HT, -1, -1, TRUE),
         Ev("load", "r_train", HT, HT, -1, -1, TRUE)>>
  /\ pc' = "fit"
  /\ UNCHANGED <<prog, algorithm, options, scenario, benchmark,
                 filename_addition, theta1, i, tt, decide, transformed, scaler,
                 est, cal, expected_llr, expected_llr_calibrated,
                 llr_neyman_distributions, llr_neyman_distributions_calibrated,
                 store, histovars>>

\* the bin edges for this iteration (adaptive: from the training sample, or
\* ValueError), then NDHistogramCalibrator(bins=bins).fit(...)
HistoFit ==
  /\ prog = "histo_inference" /\ pc = "fit"
  /\ ~Raises("fit", HT)
  /\ UNCHANGED clivars
  /\ LET summary_statistics_train == Select(samples.X_train, indices_X)
         adaptive == AdaptiveBinning(indices_X, options, summary_statistics_train)
         edges == IF binning = "adaptive" THEN adaptive.bins ELSE bins
     IN IF binning = "adaptive" /\ adaptive.error
        THEN /\ pc' = "failed"
             /\ UNCHANGED <<bins, est, calls>>
        ELSE /\ bins' = edges
             /\ est' = [id |-> HT, kind |-> "histogram", bins |-> edges]
             /\ calls' = Append(calls, Ev("fit", "histogram", HT, HT, -1, HT, TRUE))
             /\ pc' = "evaluate"
  /\ UNCHANGED <<prog, algorithm, options, scenario, benchmark,
                 filename_addition, theta1, i, tt, decide, samples,
                 transformed, scaler, cal, expected_llr,
                 expected_llr_calibrated, llr_neyman_distributions,
                 llr_neyman_distributions_calibrated, store, indices_X,
                 binning, use_smearing, denominator, do_neyman, mse_log_r,
                 trimmed_mse_log_r, mse_log_r_train, cross_entropies_train>>

\* a variant that leaves the loop for the final saves after any iteration
AdvanceToSave == "save"

\* the loop's next position after the iteration of hypothesis t
HistoAdvance == IF i + 1 > NThetas THEN "save" ELSE "load"

\* score test and training sample, append the five metrics, benchmark and
\* illustration arrays
HistoEvaluate ==
  /\ prog = "histo_inference" /\ pc = "evaluate"
  /\ ~Raises("predict", HT)
  /\ UNCHANGED clivars
  /\ LET summary_statistics_train == Select(samples.X_train, indices_X)
         summary_statistics_test  == Select(samples.X_test, indices_X)
         summary_statistics_illustration == Select(samples.X_illustration, indices_X)
         s_hat_test      == HistoPredictTest(est, summary_statistics_test)
         log_r_hat_test  == LogAll(r_from_s(s_hat_test))
         s_hat_train     == HistoPredict(est, summary_statistics_train)
         log_r_hat_train == LogAll(r_from_s(s_hat_train))
         st1 == SaveBenchmark(store, HT, "_histo",
                              [k \in 1 .. Len(log_r_hat_test) |->
                                 Exp(log_r_hat_test[k])])
     IN /\ calls' = calls \o
             <<Ev("predict", "X_test", -1, HT, -1, est.id, TRUE),
               Ev("log", "r_from_s(s_hat_test)", -1, HT, -1, est.id, Guarded(r_from_s(s_hat_test))),
               Ev("predict", "X_train", HT, HT, -1, est.id, TRUE),
               Ev("log", "r_from_s(s_hat_train)", -1, HT, -1, est.id, Guarded(r_from_s(s_hat_train))),
               Ev("log", "s_hat_train", -1, HT, -1, est.id, FALSE),
               Ev("log", "1 - s_hat_train", -1, HT, -1, est.id, FALSE)>>
             \o (IF HT = benchmark.illustration
                 THEN <<Ev("predict", "X_illustration", -1, HT, -1, est.id, TRUE)>>
                 ELSE <<>>)
        /\ expected_llr' =
             AppendMetric(expected_llr, ExpectedLLR(log_r_hat_test, n_events_test))
        /\ mse_log_r' =
             AppendMetric(mse_log_r,
               calculate_mean_squared_error(samples.r_test[HT], log_r_hat_test, "0"))
        /\ trimmed_mse_log_r' =
             AppendMetric(trimmed_mse_log_r,
               calculate_mean_squared_error(samples.r_test[HT], log_r_hat_test, "auto"))
        /\ mse_log_r_train' =
             AppendMetric(mse_log_r_train,
               calculate_mean_squared_error(samples.r_train, log_r_hat_train, "0"))
        /\ cross_entropies_train' =
             AppendMetric(cross_entropies_train,
                          CrossEntropy(samples.y_train, s_hat_train))
        /\ store' =
             IF HT = benchmark.illustration
             THEN Save(st1, "r_illustration_histo", -1,
                       r_from_s(HistoPredict(est, summary_statistics_illustration)))
             ELSE st1
  /\ pc' = IF do_neyman THEN "neyman" ELSE HistoAdvance
  /\ i' = IF do_neyman THEN i ELSE i + 1
  /\ UNCHANGED <<prog, algorithm, options, scenario, benchmark,
                 filename_addition, theta1, tt, decide, samples, transformed,
                 scaler, est, cal, expected_llr_calibrated,
                 llr_neyman_distributions, llr_neyman_distributions_calibrated,
                 indices_X, binning, use_smearing, denominator, do_neyman,
                 bins>>

\* the per-toy LLR sums of one toy batch under the histogram of this iteration
HistoToyLLR(histogram, batch, ix, n_expected_events_neyman) ==
  LET summary == Select(Flatten(batch), ix)
      log_r   == LogAll(r_from_s(HistoPredict(histogram, summary)))
      rows    == Reshape(log_r, n_expected_events_neyman)
  IN [k \in 1 .. Len(rows) |-> Times(-2, SumSeq(rows[k]))]

RECURSIVE SaveNullAtAlternate(_, _, _, _, _)
\* for tt in range(n_thetas): load the null sample of tt, score, save
SaveNullAtAlternate(st, histogram, ix, n_events, from) ==
  IF from >= NThetas THEN st
  ELSE SaveNullAtAlternate(
         Save(st, "llr_nullatalternate", from,
              HistoToyLLR(histogram,
                          Histo_X_neyman_file(scenario.wide, from, n_events),
                          ix, n_events)),
         histogram, ix, n_events, from + 1)

\* a variant that evaluates the null samples at the alternate in every iteration
AtEveryHypothesis(t) == TRUE

\* "if t == settings.theta_observed": the iteration that evaluates the null
\* samples of all hypotheses
AtObserved(t) == t = theta_observed

\* Neyman construction toys of hypothesis t: alternate, null, null at alternate
HistoNeyman ==
  /\ prog = "histo_inference" /\ pc = "neyman"
  /\ UNCHANGED clivars
  /\ LET n_events == NExpectedEventsNeyman(options)
         st1 == Save(store, "llr_alternate", HT,
                     HistoToyLLR(est, samples.X_neyman_alternate, indices_X,
                                 n_events))
         st2 == Save(st1, "llr_null", HT,
                     HistoToyLLR(est,
                                 Histo_X_neyman_file(scenario.wide, HT, n_events),
                                 indices_X, n_events))
     IN /\ store' = IF AtObserved(HT)
                    THEN SaveNullAtAlternate(st2, est, indices_X, n_events, 0)
                    ELSE st2
        /\ calls' = calls \o
             <<Ev("predict", "X_neyman_alternate", -1, HT, -1, est.id, TRUE),
               Ev("log", "r_from_s(s_hat_neyman_alternate)", -1, HT, -1, est.id,
                  TRUE),
               Ev("load", "X_neyman_null", HT, HT, -1, -1, TRUE),
               Ev("predict", "X_neyman_null", HT, HT, -1, est.id, TRUE),
               Ev("log", "r_from_s(s_hat_neyman_null)", HT, HT, -1, est.id, TRUE)>>
             \o (IF AtObserved(HT)
                 THEN Flatten([k \in 1 .. NThetas |->
                        <<Ev("load", "X_neyman_null", k - 1, HT, -1, -1, TRUE),
                          Ev("predict", "X_neyman_null", k - 1, HT, -1, est.id,
                             TRUE),
                          Ev("log", "r_from_s(s_hat_neyman_null)", k - 1, HT,
                             -1, est.id, TRUE)>>])
                 ELSE <<>>)
  /\ i' = i + 1
  /\ pc' = HistoAdvance
  /\ UNCHANGED <<prog, algorithm, options, scenario, benchmark,
                 filename_addition, theta1, tt, decide, samples, transformed,
                 scaler, est, cal, expected_llr, expected_llr_calibrated,
                 llr_neyman_distributions, llr_neyman_distributions_calibrated,
                 histovars>>

\* np.save of the five metric series
HistoSave ==
  /\ prog = "histo_inference" /\ pc = "save"
  /\ UNCHANGED clivars
  /\ store' =
       Save(Save(Save(Save(Save(store, "llr_histo", -1, expected_llr),
                           "mse_logr_histo", -1, mse_log_r),
                      "trimmed_mse_logr_histo", -1, trimmed_mse_log_r),
                 "mse_logr_train_histo", -1, mse_log_r_train),
            "cross_entropy_train_histo", -1, cross_entropies_train)
  /\ pc' = "done"
  /\ UNCHANGED <<prog, algorithm, options, scenario, benchmark,
                 filename_addition, theta1, i, tt, decide, samples,
                 transformed, scaler, est, cal, expected_llr,
                 expected_llr_calibrated, llr_neyman_distributions,
                 llr_neyman_distributions_calibrated, calls, histovars>>

\* an exception of np.load, fit or predict in the loop: nothing catches it,
\* the run ends
HistoRaise ==
  /\ prog = "histo_inference" /\ pc \in {"load", "fit", "evaluate"}
  /\ UNCHANGED clivars
  /\ Raises(StepOp(pc), HT)
  /\ calls' = Append(calls, Ev("raise", StepOp(pc), HT, HT, -1, -1, FALSE))
  /\ pc' = Propagate(pc)
  /\ UNCHANGED <<prog, algorithm, options, scenario, benchmark,
                 filename_addition, theta1, i, tt, decide, samples,
                 transformed, scaler, est, cal, expected_llr,
                 expected_llr_calibrated, llr_neyman_distributions,
                 llr_neyman_distributions_calibrated, store, histovars>>

HistoNext ==
  \/ HistoRaise \/ HistoSettings \/ HistoLoadData \/ HistoLoadTrain \/ HistoFit
  \/ HistoEvaluate \/ HistoNeyman \/ HistoSave

(***************************************************************************)
(* experiments.py: the dispatcher                                          *)
(***************************************************************************)
Algorithms ==
  {"p", "cl", "pvalues", "truth", "localmodel", "histo", "afc", "carl",
   "score", "combined", "regression", "combinedregression", "scoreregression"}

NoCall == [callee |-> "", kwargs |-> {}]

\* the keyword parameters a strategy function declares (the strategies whose
\* source is not at hand take the keywords they are called with)
Parameters(callee, kwargs) ==
  IF callee = "histo_inference"
  THEN {"indices_X", "binning", "use_smearing", "denominator", "do_neyman",
        "options"}
  ELSE IF callee = "point_by_point_inference"
  THEN {"algorithm", "options"}
  ELSE kwargs

\* a call binds when every keyword is a parameter of the callee (else TypeError)
Accepts(callee, kwargs) == kwargs \subseteq Parameters(callee, kwargs)

\* the if/elif chain of "Start calculation"
Dispatch(a) ==
  IF a.algorithm \in {"p", "cl", "pvalues"}
  THEN [callee |-> "calculate_all_CL", kwargs |-> {}, ml |-> FALSE]
  ELSE IF a.algorithm = "truth"
  THEN [callee |-> "truth_inference", kwargs |-> {"do_neyman", "options"},
        ml |-> FALSE]
  ELSE IF a.algorithm = "localmodel"
  THEN [callee |-> "local_model_truth_inference",
        kwargs |-> {"do_neyman", "options"}, ml |-> FALSE]
  ELSE IF a.algorithm = "histo"
  THEN [callee |-> "histo_inference",
        kwargs |-> {"indices_X", "use_smearing", "do_neyman", "options"},
        ml |-> FALSE]
  ELSE IF a.algorithm = "afc"
  THEN [callee |-> "afc_inference",
        kwargs |-> {"indices_X", "epsilon", "use_smearing", "do_neyman",
                    "options"}, ml |-> FALSE]
  ELSE IF a.algorithm = "scoreregression"
  THEN [callee |-> "score_regression_inference",
        kwargs |-> {"use_smearing", "do_neyman", "options"}, ml |-> TRUE]
  ELSE IF a.pointbypoint
  THEN [callee |-> "point_by_point_inference",
        kwargs |-> {"algorithm", "use_smearing", "do_neyman", "options"},
        ml |-> TRUE]
  ELSE [callee |-> "parameterized_inference",
        kwargs |-> {"algorithm", "morphing_aware", "use_smearing",
                    "training_sample", "alpha", "do_neyman", "options"},
        ml |-> TRUE]

UnchangedRun ==
  UNCHANGED <<algorithm, scenario, benchmark, filename_addition, theta1, i, tt,
              decide, samples, transformed, scaler, est, cal, expected_llr,
              expected_llr_calibrated, llr_neyman_distributions,
              llr_neyman_distributions_calibrated, store, calls, bins,
              mse_log_r, trimmed_mse_log_r, mse_log_r_train,
              cross_entropies_train>>

\* "Sanity checks": the two assertions on the parsed arguments
CliSanity ==
  /\ prog = "experiments" /\ pc = "sanity"
  /\ pc' = IF args.algorithm \in Algorithms
              /\ args.training \in {"baseline", "basis", "random"}
           THEN "dispatch" ELSE "failed"
  /\ UNCHANGED <<prog, clivars, options, indices_X, binning, use_smearing,
                 denominator, do_neyman>>
  /\ UnchangedRun

\* "Start calculation": choose the strategy, assert the ML strategies loaded
CliDispatch ==
  /\ prog = "experiments" /\ pc = "dispatch"
  /\ LET d == Dispatch(args)
     IN IF d.ml /\ ~loaded_ml_strategies
        THEN /\ pc' = "failed"
             /\ UNCHANGED call
        ELSE /\ call' = [callee |-> d.callee, kwargs |-> d.kwargs]
             /\ pc' = "call"
  /\ UNCHANGED <<prog, args, loaded_ml_strategies, options, indices_X, binning,
                 use_smearing, denominator, do_neyman>>
  /\ UnchangedRun

\* the call itself: TypeError when a keyword is no parameter of the callee;
\* histo_inference then runs with the arguments given and its defaults
CliCall ==
  /\ prog = "experiments" /\ pc = "call"
  /\ IF ~Accepts(call.callee, call.kwargs)
     THEN /\ pc' = "failed"
          /\ UNCHANGED <<prog, options, indices_X, binning, use_smearing,
                         denominator, do_neyman>>
     ELSE IF call.callee = "histo_inference"
     THEN /\ prog' = "histo_inference"
          /\ pc' = "settings"
          /\ indices_X' = args.xindices
          /\ binning' = "adaptive"
          /\ use_smearing' = args.smearing
          /\ denominator' = 0
          /\ do_neyman' = args.neyman
          /\ options' = args.options
     ELSE /\ pc' = "called"
          /\ UNCHANGED <<prog, options, indices_X, binning, use_smearing,
                         denominator, do_neyman>>
  /\ UNCHANGED clivars
  /\ UnchangedRun

\* the strategy returned: "That's it -- have a great day!"
CliDone ==
  /\ prog = "experiments" /\ pc = "called"
  /\ pc' = "done"
  /\ UNCHANGED <<prog, clivars, options, indices_X, binning, use_smearing,
                 denominator, do_neyman>>
  /\ UnchangedRun

CliNext == CliSanity \/ CliDispatch \/ CliCall \/ CliDone

(***************************************************************************)
(* The specification: a run of one of the three entry points               *)
(***************************************************************************)
vars == <<prog, pc, options, pbpvars, histovars, clivars>>

\* the state before any entry point has acted
Fresh ==
  /\ filename_addition = <<>> /\ theta1 = -1
  /\ i = 0 /\ tt = 0
  /\ decide = [t \in Thetas |-> FALSE]
  /\ samples = [X_test |-> <<>>]
  /\ transformed = [by |-> -1]
  /\ scaler = None /\ est = None /\ cal = None
  /\ expected_llr = <<>> /\ expected_llr_calibrated = <<>>
  /\ llr_neyman_distributions = <<>>
  /\ llr_neyman_distributions_calibrated = <<>>
  /\ store = EmptyStore
  /\ calls = <<>>
  /\ bins = <<>>
  /\ mse_log_r = <<>> /\ trimmed_mse_log_r = <<>>
  /\ mse_log_r_train = <<>> /\ cross_entropies_train = <<>>
  /\ call = NoCall

NoArgs ==
  [algorithm |-> "", pointbypoint |-> FALSE, smearing |-> FALSE,
   neyman |-> FALSE, training |-> "", xindices |-> <<>>, options |-> {}]

DefaultBenchmark == [trained |-> NThetas - 1, nottrained |-> 1, illustration |-> 0]

\* the runs of point_by_point_inference explored: every option set, every
\* scenario and every benchmark setting, one of the three varied at a time
PbpRuns ==
  {<<o, Clean, DefaultBenchmark>> : o \in OptionSets}
  \cup {<<{}, sc, DefaultBenchmark>> : sc \in Scenarios}
  \cup {<<{}, Clean, b>> : b \in BenchmarkChoices}

\* a direct call point_by_point_inference(algorithm, options)
InitPbp ==
  /\ prog = "point_by_point_inference" /\ pc = "settings"
  /\ algorithm \in {"carl", "regression", "score"}
  /\ \E run \in PbpRuns :
       options = run[1] /\ scenario = run[2] /\ benchmark = run[3]
  /\ indices_X = <<>> /\ binning = "" /\ use_smearing = FALSE
  /\ denominator = 0 /\ do_neyman = FALSE
  /\ args = NoArgs /\ loaded_ml_strategies = TRUE
  /\ Fresh

HistoIndices == {<<1, 41>>, <<41, 1>>, <<1>>, <<41>>, <<1, 38, 39, 40, 41>>, <<38>>}

\* binning: the two modes, and a plain bin count
HistoBinnings == {"optimized", "adaptive", "10"}

HistoOptionSets ==
  SUBSET {"roughbinning", "finebinning", "superbinning", "asymmetricbinning"}
  \cup {{"new"}, {"neyman2"}, {"neyman3"}, {"neyman2", "neyman3"}}

\* a direct call histo_inference(indices_X, binning, use_smearing, denominator,
\* do_neyman, options)
InitHisto ==
  /\ prog = "histo_inference" /\ pc = "settings"
  /\ algorithm = "histo"
  /\ indices_X \in HistoIndices
  /\ binning \in HistoBinnings
  /\ options \in HistoOptionSets
  /\ do_neyman \in BOOLEAN
  /\ \E v \in {<<FALSE, 0, 1, FALSE, {}, FALSE>>,
                <<TRUE, 0, 1, FALSE, {}, FALSE>>,
                <<FALSE, 1, 1, FALSE, {}, FALSE>>,
                <<FALSE, 0, 2, FALSE, {}, FALSE>>,
                <<FALSE, 0, 1, TRUE, {}, FALSE>>,
                <<FALSE, 0, 1, FALSE, {[op |-> "load", t |-> 1]}, FALSE>>,
                <<FALSE, 0, 1, FALSE, {[op |-> "fit", t |-> 0]}, FALSE>>,
                <<FALSE, 0, 1, FALSE, {[op |-> "predict", t |-> NThetas - 1]},
                  FALSE>>,
                <<FALSE, 0, 1, FALSE, {}, TRUE>>} :
       /\ use_smearing = v[1] /\ denominator = v[2]
       /\ scenario = [Clean EXCEPT !.family = v[3], !.wide = v[4],
                                   !.raises = v[5], !.oracle = v[6]]
  /\ benchmark \in BenchmarkChoices
  /\ args = NoArgs /\ loaded_ml_strategies = TRUE
  /\ Fresh

\* a run of experiments.py on a parsed command line
InitCli ==
  /\ prog = "experiments" /\ pc = "sanity"
  /\ args \in [algorithm : Algorithms \cup {"bdt"},
               pointbypoint : BOOLEAN, smearing : BOOLEAN, neyman : BOOLEAN,
               training : {"baseline", "all"},
               xindices : {<<1, 38, 39, 40, 41>>, <<1, 41>>},
               options : {{}, {"roughbinning"}}]
  /\ loaded_ml_strategies \in BOOLEAN
  /\ algorithm = "" /\ options = {}
  /\ scenario = Clean /\ benchmark = DefaultBenchmark
  /\ indices_X = <<>> /\ binning = "" /\ use_smearing = FALSE
  /\ denominator = 0 /\ do_neyman = FALSE
  /\ Fresh

Init == InitPbp \/ InitHisto \/ InitCli

Next == PbpNext \/ HistoNext \/ CliNext

Spec == Init /\ [][Next]_vars

(***************************************************************************)
(* Properties of the Neyman construction of point_by_point_inference       *)
(***************************************************************************)
InPbp == prog = "point_by_point_inference"

\* the names under which the per-hypothesis distribution arrays are saved
DistributionNames ==
  {"neyman_llr_distribution", "neyman_llr_distribution_calibrated"}

\* C1: every saved per-hypothesis Neyman distribution array, raw and (in the
\* carl branch) calibrated, has exactly one row per candidate hypothesis of
\* settings.thetas, so that row tt belongs to candidate tt.
C1_SavedDistributionsHaveNThetasRows ==
  \A k \in DOMAIN store :
    k.name \in DistributionNames => Len(store[k]) = NThetas

\* C2 as stated: the observed sample is evaluated and saved in every
\* iteration, whatever the predicate says.
C2_ObservedSavedInEveryIteration ==
  (InPbp /\ pc = "toys") =>
    /\ Key("neyman_llr_observed", T) \in DOMAIN store
    /\ algorithm = "carl" =>
         Key("neyman_llr_observed_calibrated", T) \in DOMAIN store

\* C2, amended: in the iteration of hypothesis t the observed sample is
\* evaluated and saved exactly when decide_toy_evaluation(theta_observed, t)
\* holds; otherwise nothing is scored or saved for it in that iteration.
C2_ObservedSavedIffPredicate ==
  (InPbp /\ pc = "toys") =>
    /\ Key("neyman_llr_observed", T) \in DOMAIN store <=> decide[theta_observed]
    /\ algorithm = "carl" =>
         (Key("neyman_llr_observed_calibrated", T) \in DOMAIN store
            <=> decide[theta_observed])
    /\ (\E k \in 1 .. Len(calls) :
          /\ calls[k].op = "predict" /\ calls[k].name = "X_neyman_observed"
          /\ calls[k].iter = T)
       <=> decide[theta_observed]

\* a second iteration in which the predicate rejects the observed sample, the
\* first one having saved it
C2_Witness ==
  /\ InPbp /\ pc = "toys" /\ i = 2
  /\ ~decide[theta_observed]
  /\ Key("neyman_llr_observed", T) \notin DOMAIN store
  /\ Key("neyman_llr_observed", pbp_training_thetas[1]) \in DOMAIN store

\* the per-toy sums the iteration's estimator gives candidate c's toy batch
RowOf(estimator, c) ==
  ToyLLR(PredictLogR(estimator,
           Transform(scaler,
             Flatten(Load("X_neyman_distribution", c,
                          X_neyman_distribution_file(scenario.wide, c))))))

\* whether candidate c's toy batch was loaded in the current iteration
LoadedInIteration(c) ==
  \E k \in 1 .. Len(calls) :
    /\ calls[k].op = "load" /\ calls[k].name = "X_neyman_distribution"
    /\ calls[k].idx = c /\ calls[k].iter = T

\* one distribution list against the candidates handled so far
RowsAsClaimed(list, estimator) ==
  /\ Len(list) = tt
  /\ \A c \in 0 .. (tt - 1) :
       /\ Len(list[c + 1]) = NToys
       /\ ~decide[c] => list[c + 1] = Placeholder
       /\ decide[c] => list[c + 1] = RowOf(estimator, c)

\* C3: for every pair (t, tt), a skipped combination is not loaded and its row
\* is the all-NaN placeholder of length n_neyman_distribution_experiments; an
\* evaluated combination is loaded, transformed, scored and its row holds the
\* per-toy LLR sums; all rows of every array have the same length.
C3_RowsAreSentinelOrSums ==
  (InPbp /\ pc = "toys") =>
    /\ \A c \in 0 .. (tt - 1) : LoadedInIteration(c) <=> decide[c]
    /\ RowsAsClaimed(llr_neyman_distributions, est)
    /\ algorithm = "carl" =>
         RowsAsClaimed(llr_neyman_distributions_calibrated, cal)

(***************************************************************************)
(* Properties of the binning of histo_inference                            *)
(***************************************************************************)
InHisto == prog = "histo_inference"

\* a histogram has been fit in this run
HistogramFit == InHisto /\ est # None

\* the edges of one observable cover its declared range
CoversRange(observable, mode, edges) ==
  IF observable = 1
  THEN edges[1] = 0 /\ edges[Len(edges)] = PtMax
  ELSE IF mode = "optimized"
  THEN edges[1] = 0 /\ edges[Len(edges)] = Pi
  ELSE /\ 0 - Margin <= edges[1] /\ edges[1] <= 0
       /\ Pi <= edges[Len(edges)] /\ edges[Len(edges)] <= Pi + Margin

\* C4: for every supported combination of observables and binning mode and
\* every granularity option, the edges handed to the histogram estimator
\* start and end at the declared range of their observable (pT 0 .. 14000,
\* delta-phi 0 .. pi, in adaptive mode within the margin), whatever the
\* training sample holds.
C4_BinEdgesCoverRange ==
  (HistogramFit /\ binning \in {"optimized", "adaptive"}) =>
    /\ Len(est.bins) = Len(indices_X)
    /\ \A j \in 1 .. Len(indices_X) :
         /\ Len(est.bins[j]) >= 2
         /\ CoversRange(indices_X[j], binning, est.bins[j])

\* adaptive two-dimensional edges taken from a training sample that lies
\* partly outside both declared ranges
C4_Witness ==
  /\ HistogramFit /\ binning = "adaptive" /\ indices_X = <<1, 41>>
  /\ scenario.family = 2 /\ "asymmetricbinning" \in options
  /\ est.id = 1

\* the combinations of observables and binning mode the binning code serves
Supported(ix, mode) ==
  \/ mode = "optimized" /\ ix \in {<<1, 41>>, <<41, 1>>, <<1>>, <<41>>}
  \/ mode = "adaptive" /\ ix \in {<<1, 41>>, <<1>>, <<41>>}

\* C5: histo_inference called with an unsupported (indices_X, binning)
\* combination fails with ValueError before any computation: nothing has been
\* loaded, fit or written when it fails, and it does fail.
C5_UnsupportedFailsBeforeComputation ==
  (InHisto /\ ~Supported(indices_X, binning)) =>
    /\ pc \in {"settings", "failed"}
    /\ calls = <<>> /\ store = EmptyStore /\ est = None

(***************************************************************************)
(* Properties of the dispatcher                                            *)
(***************************************************************************)
\* C6: with the point-by-point flag and algorithm carl or regression, the call
\* the dispatcher makes to point_by_point_inference (algorithm, use_smearing,
\* do_neyman, options) is accepted by that function.
C6_PointByPointCallAccepted ==
  (/\ prog = "experiments" /\ args.pointbypoint
   /\ args.algorithm \in {"carl", "regression"}
   /\ call.callee = "point_by_point_inference") => pc # "failed"

(***************************************************************************)
(* Properties of the per-hypothesis loops                                  *)
(***************************************************************************)
\* event k is preceded, in its own iteration, by a passed assertion on `name`
AssertedBefore(k, name) ==
  \E a \in 1 .. (k - 1) :
    /\ calls[a].op = "assert" /\ calls[a].name = name
    /\ calls[a].iter = calls[k].iter /\ calls[a].ok

\* C7: in both branches of point_by_point_inference, every fit of an
\* iteration's scorer comes after passed finiteness assertions on the
\* transformed training and test features (and, in the regression branch, on
\* log(r_train)), so fit is never called on non-finite input.
C7_FinitenessAssertedBeforeFit ==
  InPbp =>
    \A k \in 1 .. Len(calls) :
      (calls[k].op = "fit" /\ calls[k].name \in {"regr", "clf"}) =>
        /\ AssertedBefore(k, "X_train_transformed")
        /\ AssertedBefore(k, "X_test_transformed")
        /\ calls[k].name = "regr" => AssertedBefore(k, "log_r_train")
        /\ calls[k].ok

\* C8: every logarithm taken of an estimator output is taken of a value that
\* has passed the boundary guard r_from_s, in histo_inference and in
\* point_by_point_inference.
C8_EveryLogIsGuarded ==
  \A k \in 1 .. Len(calls) : calls[k].op = "log" => calls[k].ok

\* the expected LLR the k-th training hypothesis of point_by_point_inference
\* yields on the test sample, from the samples of the run (shift 0: the raw
\* scorer, shift 1: the calibrated one)
PbpExpectedLLR(k, shift) ==
  LET t  == pbp_training_thetas[k]
      X  == Load("X_train", t, X_train_file(t))
      sc == StandardScalerFit(t, X)
      e  == [id |-> t, shift |-> shift,
             nonfinite |-> t \in scenario.nonfinite
                           \/ (algorithm = "carl" /\ ~Finite(Transform(sc, X)))]
  IN ExpectedLLR(PredictTest(e, Transform(sc, samples.X_test)),
                 Len(samples.X_test))

\* the five metrics hypothesis t of settings.thetas yields in histo_inference
HistoMetrics(t) ==
  LET train   == Select(Histo_X_train_file(scenario.family, t), indices_X)
      test    == Select(samples.X_test, indices_X)
      s_train == HistoPredict([id |-> t], train)
      l_train == LogAll(r_from_s(s_train))
      l_test  == LogAll(r_from_s(HistoPredictTest([id |-> t], test)))
  IN [expected_llr |-> ExpectedLLR(l_test, Len(samples.X_test)),
      mse_log_r |->
        calculate_mean_squared_error(samples.r_test[t], l_test, "0"),
      trimmed_mse_log_r |->
        calculate_mean_squared_error(samples.r_test[t], l_test, "auto"),
      mse_log_r_train |->
        calculate_mean_squared_error(Histo_r_train_file(scenario.family, t),
                                     l_train, "0"),
      cross_entropies_train |->
        CrossEntropy(Histo_y_train_file(scenario.family, t), s_train)]

\* the metric series of histo_inference after `done` completed iterations
HistoSeriesInOrder(done) ==
  /\ Len(expected_llr) = done /\ Len(mse_log_r) = done
  /\ Len(trimmed_mse_log_r) = done /\ Len(mse_log_r_train) = done
  /\ Len(cross_entropies_train) = done
  /\ \A k \in 1 .. done :
       /\ expected_llr[k] = HistoMetrics(k - 1).expected_llr
       /\ mse_log_r[k] = HistoMetrics(k - 1).mse_log_r
       /\ trimmed_mse_log_r[k] = HistoMetrics(k - 1).trimmed_mse_log_r
       /\ mse_log_r_train[k] = HistoMetrics(k - 1).mse_log_r_train
       /\ cross_entropies_train[k] = HistoMetrics(k - 1).cross_entropies_train

\* the metric series of point_by_point_inference after `done` iterations
PbpSeriesInOrder(done) ==
  /\ Len(expected_llr) = done
  /\ \A k \in 1 .. done : expected_llr[k] = PbpExpectedLLR(k, 0)
  /\ algorithm = "carl" =>
       /\ Len(expected_llr_calibrated) = done
       /\ \A k \in 1 .. done : expected_llr_calibrated[k] = PbpExpectedLLR(k, 1)

\* C9: after k completed iterations of a per-hypothesis loop every metric
\* series has length k and its i-th entry is the value of the i-th hypothesis
\* of the iterated sequence; when the loop has ended the length is the number
\* of hypotheses iterated.
C9_SeriesInHypothesisOrder ==
  /\ (InHisto /\ pc \in {"load", "save", "done"}) => HistoSeriesInOrder(i - 1)
  /\ (InHisto /\ pc \in {"save", "done"}) => Len(expected_llr) = NThetas
  /\ (InPbp /\ pc \in {"load", "interpolate", "done"}) => PbpSeriesInOrder(i - 1)
  /\ (InPbp /\ pc \in {"interpolate", "done"}) =>
       Len(expected_llr) = Len(pbp_training_thetas)

\* a finished carl run whose two hypotheses gave different expected LLRs
C9_Witness ==
  /\ InPbp /\ algorithm = "carl" /\ pc = "done"
  /\ Len(expected_llr_calibrated) = Len(pbp_training_thetas)
  /\ expected_llr[1] # expected_llr[2]
  /\ expected_llr_calibrated[1] # expected_llr_calibrated[2]

\* C10: within the iteration of hypothesis t every transform uses the scaler
\* fit on t's training sample in that iteration and every score comes from
\* the estimator (raw or calibrated) fit in that iteration.
C10_ScalerAndEstimatorOfIteration ==
  InPbp =>
    /\ \A k \in 1 .. Len(calls) :
         /\ calls[k].op = "transform" => calls[k].scaler = calls[k].iter
         /\ calls[k].op = "predict" =>
              calls[k].scaler = calls[k].iter /\ calls[k].est = calls[k].iter
    /\ pc \in {"fit", "evaluate", "calibrate", "observed", "toys"} =>
         scaler = StandardScalerFit(T, samples.X_train) /\ transformed.by = T
    /\ pc \in {"evaluate", "calibrate", "observed", "toys"} => est.id = T
    /\ (algorithm = "carl" /\ pc \in {"observed", "toys"}) => cal.id = T

\* the second iteration of a carl run with every candidate evaluated
C10_Witness ==
  /\ InPbp /\ algorithm = "carl" /\ i = 2 /\ pc = "toys" /\ tt = NThetas
  /\ \A c \in Thetas : decide[c]
  /\ Len(llr_neyman_distributions_calibrated) = NThetas

(***************************************************************************)
(* Properties of the calibration of the carl branch                        *)
(***************************************************************************)
\* the calibrated ratio of the current iteration has been fit
CalibratedFit ==
  InPbp /\ algorithm = "carl" /\ pc \in {"observed", "toys"}

\* the reference hypothesis the options configure
ConfiguredTheta1 ==
  IF "denom1" \in options THEN theta1_alternative ELSE theta1_default

\* C11: the calibration mixture of iteration t, built from a calibration sample
\* of N rows, has 2N rows: rows 1..N are the transformed calibration rows with
\* label 0 and the weights of hypothesis t, rows N+1..2N are the same rows
\* again with label 1 and the weights of the reference hypothesis theta1 (the
\* alternative reference under option 'denom1').
C11_CalibrationMixture ==
  CalibratedFit =>
    LET N    == Len(samples.X_calibration)
        rows == Transform(scaler, samples.X_calibration)
        mix  == cal.fit_on
    IN /\ Len(mix.X_calibration_both) = 2 * N
       /\ Len(mix.y_calibration) = 2 * N
       /\ Len(mix.w_calibration) = 2 * N
       /\ \A k \in 1 .. N :
            /\ mix.X_calibration_both[k] = rows[k]
            /\ mix.X_calibration_both[N + k] = rows[k]
            /\ mix.y_calibration[k] = 0
            /\ mix.y_calibration[N + k] = 1
            /\ mix.w_calibration[k] = samples.weights_calibration[T][k]
            /\ mix.w_calibration[N + k] =
                 samples.weights_calibration[ConfiguredTheta1][k]

\* an iteration under 'denom1' whose hypothesis is not the reference, so that
\* the two halves carry different weights
C11_Witness ==
  /\ CalibratedFit /\ "denom1" \in options
  /\ T # theta1 /\ theta1 = theta1_alternative
  /\ Len(cal.fit_on.w_calibration) = 2 * Len(X_calibration_file)
  /\ cal.fit_on.w_calibration[1] # cal.fit_on.w_calibration[Len(X_calibration_file) + 1]

(***************************************************************************)
(* Properties of the toy evaluation                                        *)
(***************************************************************************)
\* -2 times the sum of the log-ratios of each toy's own events
PerToySums(log_r_of_toys) ==
  [toy \in 1 .. Len(log_r_of_toys) |-> Times(-2, SumSeq(log_r_of_toys[toy]))]

\* the toys of a batch scored one by one by the scorer of point_by_point
PbpPerToy(batch) ==
  PerToySums([toy \in 1 .. Len(batch) |->
                PredictLogR(est, Transform(scaler, batch[toy]))])

\* the toys of a batch scored one by one by the histogram
HistoPerToy(batch) ==
  PerToySums([toy \in 1 .. Len(batch) |->
                LogAll(r_from_s(HistoPredict(est, Select(batch[toy], indices_X))))])

\* C12: scoring a toy batch of T toys of E events each, by flattening, scoring
\* every row and reshaping back, yields exactly T sums, sum number i being -2
\* times the sum of the log-ratios of the events of toy i and of no other
\* toy, for every T and E, in histo_inference and point_by_point_inference.
C12_ToyRoundTrip ==
  /\ (InPbp /\ pc = "toys") =>
       /\ decide[theta_observed] =>
            store[Key("neyman_llr_observed", T)] =
              PbpPerToy(samples.X_neyman_observed)
       /\ \A c \in 0 .. (tt - 1) :
            decide[c] =>
              llr_neyman_distributions[c + 1] =
                PbpPerToy(X_neyman_distribution_file(scenario.wide, c))
  /\ (InHisto /\ do_neyman /\ pc \in {"load", "save"} /\ i > 1) =>
       LET n == NExpectedEventsNeyman(options)
       IN /\ store[Key("llr_alternate", est.id)] =
               HistoPerToy(samples.X_neyman_alternate)
          /\ store[Key("llr_null", est.id)] =
               HistoPerToy(Histo_X_neyman_file(scenario.wide, est.id, n))
          /\ est.id = theta_observed =>
               \A k \in Thetas :
                 store[Key("llr_nullatalternate", k)] =
                   HistoPerToy(Histo_X_neyman_file(scenario.wide, k, n))

(***************************************************************************)
(* Properties of the sample store                                          *)
(***************************************************************************)
\* the number of load events of sample `name`, index idx, in iteration it
Loads(name, idx, it) ==
  Cardinality({a \in 1 .. Len(calls) :
                 /\ calls[a].op = "load" /\ calls[a].name = name
                 /\ calls[a].idx = idx /\ calls[a].iter = it})

\* the file of a shared sample as the store holds it
Held(name, file) == IF Key(name, -1) \in scenario.bad THEN Spoil(file) ELSE file

\* C13 as stated: every shared sample and every toy batch of a hypothesis
\* index is loaded at most once per run.
C13_LoadedAtMostOnce ==
  \A a, b \in 1 .. Len(calls) :
    (/\ a < b /\ calls[a].op = "load" /\ calls[b].op = "load"
     /\ calls[a].name \in {"X_test", "r_test", "X_calibration",
                           "weights_calibration", "X_illustration",
                           "X_neyman_observed", "X_neyman_alternate",
                           "X_neyman_distribution", "X_neyman_null"})
    => ~(calls[a].name = calls[b].name /\ calls[a].idx = calls[b].idx)

\* C13, amended: the test, calibration, illustration and observed/alternate
\* samples are loaded once, before the loop, and hold what was loaded ever
\* after.  The toy batches are loaded inside the loops: in
\* point_by_point_inference batch tt at most once in each iteration t (so
\* again in every iteration that evaluates it), in histo_inference the null
\* batch of t once in iteration t and every null batch once more in the
\* iteration of theta_observed.
C13_SharedOnceToysPerIteration ==
  /\ (InPbp /\ calls # <<>>) =>
       /\ samples.X_test = Held("X_test", X_test_file)
       /\ samples.X_calibration = Held("X_calibration", X_calibration_file)
       /\ samples.weights_calibration =
            [t \in Thetas |-> weights_calibration_file(t)]
       /\ samples.X_neyman_observed = X_neyman_observed_file(scenario.wide)
       /\ \A name \in {"X_test", "r_test", "X_calibration",
                       "weights_calibration", "X_neyman_observed"} :
            Loads(name, -1, -1) = 1
       /\ \A c \in Thetas : \A k \in 1 .. Len(pbp_training_thetas) :
            Loads("X_neyman_distribution", c, pbp_training_thetas[k]) <= 1
  /\ (InHisto /\ calls # <<>>) =>
       /\ samples.X_test = Histo_X_test_file
       /\ samples.r_test = Histo_r_test_file
       /\ samples.X_illustration = Histo_X_illustration_file
       /\ \A name \in {"X_test", "r_test", "X_illustration"} :
            Loads(name, -1, -1) = 1
       /\ Loads("X_neyman_alternate", -1, -1) = (IF do_neyman THEN 1 ELSE 0)
       /\ \A k, t \in Thetas :
            Loads("X_neyman_null", k, t) <=
              (IF k = t THEN 1 ELSE 0) + (IF t = theta_observed THEN 1 ELSE 0)

\* a toy batch loaded in two iterations of one run, the test sample still as
\* loaded although its transform differs from it
C13_Witness ==
  /\ InPbp /\ i = 2 /\ pc = "toys"
  /\ Loads("X_neyman_distribution", 0, pbp_training_thetas[1]) = 1
  /\ Loads("X_neyman_distribution", 0, pbp_training_thetas[2]) = 1
  /\ samples.X_test = X_test_file
  /\ transformed.X_test # samples.X_test

(***************************************************************************)
(* Termination of the runs                                                 *)
(***************************************************************************)
\* the starts of iterations and the fit attempts so far, in order: a load
\* of a training sample, a fit, or a step that raised
Attempts ==
  SelectSeq(calls, LAMBDA c : \/ c.op = "load" /\ c.name = "X_train"
                              \/ c.op = "fit"
                              \/ c.op = "raise")

\* the number of attempts of kind op and name `name` in iteration it
Events(op, name, it) ==
  Cardinality({a \in 1 .. Len(Attempts) :
                 /\ Attempts[a].op = op /\ Attempts[a].name = name
                 /\ Attempts[a].iter = it})

\* the hypotheses whose training sample has been loaded (or whose load was
\* attempted), in the order of the attempts
Started ==
  LET at == SelectSeq(Attempts, LAMBDA c : \/ c.op = "load"
                                           \/ c.op = "raise" /\ c.name = "load")
  IN [k \in 1 .. Len(at) |-> at[k].iter]

\* the sequence a loop iterates
Iterated ==
  IF InPbp THEN pbp_training_thetas ELSE [k \in 1 .. NThetas |-> k - 1]

\* the steps left to a run, counted generously: every step takes some away
StepsLeft ==
  LET K == NThetas + 10
  IN IF pc \in {"done", "failed"} THEN 0
     ELSE IF prog = "experiments"
     THEN (NThetas + 2) * K
          + (IF pc = "sanity" THEN 4 ELSE IF pc = "dispatch" THEN 3
             ELSE IF pc = "call" THEN 2 ELSE 1)
     ELSE (Len(Iterated) + 1 - i) * K
          + (IF pc = "settings" THEN 9 + NThetas
             ELSE IF pc = "data" THEN 8 + NThetas
             ELSE IF pc = "load" THEN 7 + NThetas
             ELSE IF pc = "scale" THEN 6 + NThetas
             ELSE IF pc = "fit" THEN 5 + NThetas
             ELSE IF pc = "evaluate" THEN 4 + NThetas
             ELSE IF pc = "calibrate" THEN 3 + NThetas
             ELSE IF pc \in {"observed", "neyman"} THEN 2 + NThetas
             ELSE IF pc = "toys" THEN 1 + NThetas - tt
             ELSE 1)

\* what has happened so far is one pass over a prefix of the iterated
\* sequence, with one fit attempt of each estimator per iteration
OnePassOneFit ==
  (InPbp \/ InHisto) =>
    LET estimator == IF InHisto THEN "histogram"
                     ELSE IF algorithm = "carl" THEN "clf" ELSE "regr"
    IN /\ Len(Started) <= Len(Iterated)
       /\ \A k \in 1 .. Len(Started) : Started[k] = Iterated[k]
       /\ \A k \in 1 .. Len(Iterated) :
            LET fits == Events("fit", estimator, Iterated[k])
                          + Events("raise", "fit", Iterated[k])
            IN /\ fits <= 1
               /\ Events("fit", "ratio_calibrated", Iterated[k]) <= fits
               /\ (k < Len(Started) \/ pc = "done") =>
                    Events("fit", estimator, Iterated[k]) = 1
       /\ pc = "done" => Len(Started) = Len(Iterated)
       /\ \A a \in 1 .. Len(Attempts) : Attempts[a].op = "raise" =>
            a = Len(Attempts) /\ pc = "failed" /\ calls[Len(calls)].op = "raise"

\* C14: each loop makes at most one iteration per hypothesis of its sequence
\* and one fit attempt per iteration; a failure of load, fit or predict is
\* not caught or retried, it ends the run and no later hypothesis is
\* processed; a run in which nothing fails ends after the last hypothesis.
C14_OnePassNoRetry ==
  /\ []OnePassOneFit
  /\ [][pc \notin {"done", "failed"} /\ StepsLeft' < StepsLeft]_vars

\* a run ended by a fit that raised in the second iteration of the loop
C14_Witness ==
  /\ InPbp /\ pc = "failed" /\ i = 2
  /\ Events("raise", "fit", pbp_training_thetas[2]) = 1
  /\ Events("fit", "clf", pbp_training_thetas[1]) = 1
  /\ Events("fit", "clf", pbp_training_thetas[2]) = 0

(***************************************************************************)
(* Non-finite regression output                                            *)
(***************************************************************************)
\* the test-sample prediction of the regression iteration about to be
\* evaluated holds a non-finite value
NonFinitePrediction ==
  /\ InPbp /\ algorithm = "regression" /\ pc = "evaluate"
  /\ ~Raises("predict", T)
  /\ ~Finite(PredictTest(est, transformed.X_test))

\* the iterations whose prediction drew the warning
Warned ==
  {calls[a].iter : a \in {b \in 1 .. Len(calls) : calls[b].op = "warning"}}

\* C15: in the regression branch a non-finite test-sample prediction is not
\* fatal: the warning is logged, the expected LLR of the hypothesis is still
\* appended to the series, and the loop goes on with the Neyman evaluation
\* and the next hypothesis.
C15_NonFiniteIsNotFatal ==
  /\ [][NonFinitePrediction =>
          /\ \E a \in Len(calls) + 1 .. Len(calls') :
               calls'[a].op = "warning" /\ calls'[a].iter = T
          /\ expected_llr' = Append(expected_llr, NaNQ)
          /\ pc' = "observed" /\ i' = i]_vars
  /\ []((InPbp /\ algorithm = "regression") =>
          /\ \A k \in 1 .. Len(pbp_training_thetas) :
               (k < i \/ (k = i /\ pc \in {"observed", "toys"})) =>
                  /\ Len(expected_llr) >= k
                  /\ pbp_training_thetas[k] \in Warned => expected_llr[k] = NaNQ
                  /\ k < i => Key("neyman_llr_distribution", pbp_training_thetas[k])
                                \in DOMAIN store
          /\ pc = "failed" /\ Warned # {} =>
               /\ calls[Len(calls)].op \in {"raise", "assert"}
               /\ ~calls[Len(calls)].ok)

\* the loop has reached the second hypothesis after a warning in the first
C15_Witness ==
  /\ InPbp /\ algorithm = "regression" /\ i = 2 /\ pc = "fit"
  /\ pbp_training_thetas[1] \in Warned
  /\ Len(expected_llr) = 1 /\ expected_llr[1] = NaNQ
  /\ Key("neyman_llr_distribution", pbp_training_thetas[1]) \in DOMAIN store

(***************************************************************************)
(* Algorithm names                                                         *)
(***************************************************************************)
\* C16: an algorithm name outside the supported set fails before any
\* computation: the dispatcher rejects it before calling a strategy,
\* point_by_point_inference rejects every name other than carl and regression
\* before loading a sample, and every name the dispatcher routes to
\* point_by_point_inference is one that function accepts.
C16_UnsupportedAlgorithmFailsFast ==
  /\ (prog = "experiments" /\ args.algorithm \notin Algorithms) =>
       pc \in {"sanity", "failed"} /\ call = NoCall
  /\ (InPbp /\ algorithm \notin PbpAlgorithms) =>
       pc \in {"settings", "failed"} /\ calls = <<>> /\ store = EmptyStore
  /\ (prog = "experiments" /\ call.callee = "point_by_point_inference") =>
       args.algorithm \in PbpAlgorithms

(***************************************************************************)
(* The expected LLR of an oracle estimator                                 *)
(***************************************************************************)
\* -2 * (N_expected / N_test) * sum(log r_true) for hypothesis t
OracleLLR(t) == [num |-> -2 * NEvents * SumSeq(r_test_file[t]), den |-> NTest]

\* C17: when the estimator is replaced by an oracle that returns the exact
\* ratios of the test sample, the expected LLR recorded for each hypothesis
\* is -2 * (N_expected / N_test) * sum(log r_true) over the test events, in
\* histo_inference and in the raw and the calibrated series of
\* point_by_point_inference.
C17_OracleExpectedLLR ==
  scenario.oracle =>
    /\ InHisto =>
         \A k \in 1 .. Len(expected_llr) : expected_llr[k] = OracleLLR(k - 1)
    /\ InPbp =>
         /\ \A k \in 1 .. Len(expected_llr) :
              expected_llr[k] = OracleLLR(pbp_training_thetas[k])
         /\ \A k \in 1 .. Len(expected_llr_calibrated) :
              expected_llr_calibrated[k] = OracleLLR(pbp_training_thetas[k])

\* a finished carl run of the oracle with both series complete
C17_Witness ==
  /\ scenario.oracle /\ InPbp /\ algorithm = "carl" /\ pc = "done"
  /\ Len(expected_llr) = Len(pbp_training_thetas)
  /\ Len(expected_llr_calibrated) = Len(pbp_training_thetas)
  /\ expected_llr[1] # expected_llr[2]

(***************************************************************************)
(* The interpolated expected-LLR curve                                     *)
(***************************************************************************)
\* the grid point lies outside the hull of the training points
OutsideHull(x) ==
  (\A p \in TrainingPoints : p > x) \/ (\A p \in TrainingPoints : p < x)

\* the curve saved under `name` has one value per grid hypothesis, the
\* loop's value at every training index, and not-a-number outside the hull
CurveAsClaimed(name, series) ==
  /\ Key(name, -1) \in DOMAIN store
  /\ LET curve == store[Key(name, -1)]
     IN /\ DOMAIN curve = Thetas /\ Cardinality(DOMAIN curve) = NThetas
        /\ \A k \in 1 .. Len(pbp_training_thetas) :
             curve[pbp_training_thetas[k]] = series[k]
        /\ \A g \in Thetas : OutsideHull(thetas[g]) => curve[g] = NaNQ

EvaluatedFor(series) ==
  IF InHisto THEN {k - 1 : k \in 1 .. Len(series)}
  ELSE {pbp_training_thetas[k] : k \in 1 .. Len(series)}

\* the array under `name` is there exactly when hypothesis t has been
\* evaluated, and is then the test ratio array behind t's entry of `series`
PersistedIffEvaluated(name, t, series) ==
  /\ Key(name, -1) \in DOMAIN store <=> t \in EvaluatedFor(series)
  /\ Key(name, -1) \in DOMAIN store =>
       /\ Len(store[Key(name, -1)]) = Len(samples.X_test)
       /\ \E k \in 1 .. Len(series) :
            series[k] = ExpectedLLR(LogAll(store[Key(name, -1)]),
                                    Len(samples.X_test))

\* C19: the iteration whose hypothesis is the benchmark-trained index
\* persists the per-event test ratio array under the 'trained' key, the one
\* whose hypothesis is the benchmark-not-trained index under the
\* 'nottrained' key, and no other iteration writes either key, for every
\* configuration of the two indices, in histo_inference and in both branches
\* of point_by_point_inference.
C19_BenchmarkArraysPersisted ==
  /\ InHisto =>
       /\ PersistedIffEvaluated("r_trained_histo", benchmark.trained, expected_llr)
       /\ PersistedIffEvaluated("r_nottrained_histo", benchmark.nottrained,
                                expected_llr)
  /\ InPbp =>
       /\ PersistedIffEvaluated("r_trained", benchmark.trained, expected_llr)
       /\ PersistedIffEvaluated("r_nottrained", benchmark.nottrained, expected_llr)
       /\ PersistedIffEvaluated("r_trained_calibrated", benchmark.trained,
                                expected_llr_calibrated)
       /\ PersistedIffEvaluated("r_nottrained_calibrated", benchmark.nottrained,
                                expected_llr_calibrated)

(***************************************************************************)
(* Fixed binning and the granularity option                                *)
(***************************************************************************)
\* the granularity options of a run
Granularity == options \cap {"roughbinning", "finebinning", "superbinning"}

\* the number of entries of the pT table a granularity names
TabulatedFor(g) ==
  IF g = {"roughbinning"} THEN 10 ELSE IF g = {} THEN 20
  ELSE IF g = {"finebinning"} THEN 40 ELSE 80

\* the edges the run uses along the axis of feature x
AxisEdges(x) == bins[CHOOSE k \in 1 .. Len(indices_X) : indices_X[k] = x]

\* C20: in fixed ('optimized') binning mode the granularity option selects
\* the tabulated pT edge set for every supported combination that contains
\* pT (rough, default, fine, superfine: the tables for 10, 20, 40 and 80),
\* and likewise changes the delta-phi edge set for every supported
\* combination that contains delta-phi.
C20_GranularitySelectsEdges ==
  (/\ InHisto /\ binning = "optimized" /\ Supported(indices_X, binning)
   /\ pc \notin {"settings", "failed"} /\ Cardinality(Granularity) <= 1) =>
    /\ (\E k \in 1 .. Len(indices_X) : indices_X[k] = 1) =>
         /\ AxisEdges(1) = FixedBinsPt(Granularity)
         /\ Len(AxisEdges(1)) = TabulatedFor(Granularity)
    /\ (\E k \in 1 .. Len(indices_X) : indices_X[k] = 41) =>
         /\ AxisEdges(41) = FixedBinsDeltaphi(Granularity)
         /\ Granularity # {} => AxisEdges(41) # FixedBinsDeltaphi({})

(***************************************************************************)
(* The granularity named in the result key                                 *)
(***************************************************************************)
\* the granularity option the key suffix of this run names
NamedGranularity ==
  LET named(x) == \E k \in 1 .. Len(filename_addition) : filename_addition[k] = x
  IN IF named("_asymmetricbinning") THEN {"asymmetricbinning"}
     ELSE IF named("_superfinebinning") THEN {"superbinning"}
     ELSE IF named("_finebinning") THEN {"finebinning"}
     ELSE IF named("_roughbinning") THEN {"roughbinning"}
     ELSE {}

\* C21: for every subset of the granularity options and both binning modes
\* the granularity named in the key suffix is the one that chose the bin
\* edges, so that runs writing to the same key use the same scheme: the
\* edges of a run are those the named granularity alone gives.
C21_KeyNamesGranularityUsed ==
  (InHisto /\ Supported(indices_X, binning)) =>
    /\ (binning = "optimized" /\ pc \notin {"settings", "failed"}) =>
         bins = ManualBinning(indices_X, binning, NamedGranularity).bins
    /\ (binning = "adaptive" /\ pc = "evaluate") =>
         est.bins = AdaptiveBinning(indices_X, NamedGranularity,
                                    Select(samples.X_train, indices_X)).bins

(***************************************************************************)
(* The Neyman arrays of histo_inference                                    *)
(***************************************************************************)
\* the Neyman arrays in the store
NeymanWritten ==
  {k \in DOMAIN store :
     k.name \in {"llr_alternate", "llr_null", "llr_nullatalternate"}}

\* the hypotheses whose Neyman step has run
NeymanDone == IF do_neyman /\ i >= 2 THEN 0 .. (i - 2) ELSE {}

\* the arrays the iteration of hypothesis t writes
NeymanOf(t) ==
  {Key("llr_alternate", t), Key("llr_null", t)}
  \cup (IF t = theta_observed
        THEN {Key("llr_nullatalternate", c) : c \in Thetas} ELSE {})

\* C22: in histo_inference, without do_neyman no Neyman sample is loaded and
\* no Neyman array is written; with do_neyman every iteration t writes one
\* alternate-sample and one null-sample array keyed by t, and the
\* null-at-alternate arrays are written for every tt of the grid in the
\* iteration of the observed hypothesis and in no other.
C22_NeymanArrays ==
  /\ [](InHisto =>
          /\ NeymanWritten = UNION {NeymanOf(t) : t \in NeymanDone}
          /\ ~do_neyman =>
               \A a \in 1 .. Len(calls) :
                 calls[a].name \notin {"X_neyman_alternate", "X_neyman_null"}
          /\ \A a \in 1 .. Len(calls) :
               (calls[a].name = "X_neyman_null" /\ calls[a].idx # calls[a].iter)
                 => calls[a].iter = theta_observed)
  /\ [][InHisto =>
          /\ \A k \in NeymanWritten : store'[k] = store[k]
          /\ NeymanWritten' # NeymanWritten =>
               /\ pc = "neyman"
               /\ NeymanWritten' \ NeymanWritten = NeymanOf(HT)]_vars

\* a finished run with do_neyman: the observed hypothesis wrote the
\* null-at-alternate arrays, a later one did not
C22_Witness ==
  /\ InHisto /\ do_neyman /\ pc = "done"
  /\ \A t \in Thetas : Key("llr_null", t) \in DOMAIN store
  /\ \A c \in Thetas : Key("llr_nullatalternate", c) \in DOMAIN store
  /\ \E a \in 1 .. Len(calls) :
       calls[a].name = "X_neyman_null" /\ calls[a].iter # theta_observed

(***************************************************************************)
(* Aggregated outputs                                                      *)
(***************************************************************************)
\* the aggregated outputs in the store: the metric series of histo_inference
\* and the interpolated curves of point_by_point_inference
AggregatedWritten ==
  {k \in DOMAIN store :
     k.name \in {"llr_histo", "mse_logr_histo", "trimmed_mse_logr_histo",
                 "mse_logr_train_histo", "cross_entropy_train_histo",
                 "llr", "expected_llr_calibrated"}}

\* the per-hypothesis arrays the finished iterations of the loop have written
WrittenByEarlier ==
  IF InHisto
  THEN (IF do_neyman THEN UNION {NeymanOf(t) : t \in NeymanDone} ELSE {})
       \cup (IF benchmark.nottrained + 2 <= i
             THEN {Key("r_nottrained_histo", -1)} ELSE {})
  ELSE {Key("neyman_llr_distribution", pbp_training_thetas[k]) :
          k \in 1 .. (i - 1)}
       \cup (IF \E k \in 1 .. (i - 1) : pbp_training_thetas[k] = benchmark.nottrained
             THEN {Key("r_nottrained", -1)} ELSE {})

\* C23: the aggregated outputs are written only after the per-hypothesis
\* loop has completed every iteration; a run that aborts in iteration k
\* never writes one, and the per-hypothesis Neyman and benchmark arrays of
\* the iterations before k remain in the store.
C23_AggregatedOnlyAfterLoop ==
  /\ []((InHisto \/ InPbp) =>
          /\ AggregatedWritten # {} =>
               pc = "done" /\ i = Len(Iterated) + 1
                 /\ Len(expected_llr) = Len(Iterated)
          /\ pc = "failed" =>
               AggregatedWritten = {} /\ WrittenByEarlier \subseteq DOMAIN store)
  /\ [][/\ pc # "failed"
        /\ \A k \in DOMAIN store : k \in DOMAIN store']_vars

\* a run with do_neyman that aborted in its second iteration: the arrays of
\* the first are in the store, no metric series is
C23_Witness ==
  /\ InHisto /\ do_neyman /\ pc = "failed" /\ i = 2
  /\ calls[Len(calls)].op = "raise"
  /\ Key("llr_null", 0) \in DOMAIN store
  /\ Key("llr_alternate", 0) \in DOMAIN store
  /\ AggregatedWritten = {}

====
